---------------------------- MODULE Spec2Model ----------------------------
(***************************************************************************)
(* Dispute coordinator in its initialized state                            *)
(* (node/core/dispute-coordinator/src/initialized.rs).                     *)
(*                                                                         *)
(* The event loop of Initialized::run_until_error is modelled with one     *)
(* action per loop position: an input is received and handled against a    *)
(* fresh overlay, the overlay is flushed to the backend, the deferred      *)
(* confirmation is sent.  The handlers are operators over a record `m` of  *)
(* the loop's in-memory state, its overlay and the messages it sent, so    *)
(* that a handler calling another (a leaf update importing scraped votes,  *)
(* a participation result issuing a local statement) is one step.          *)
(*                                                                         *)
(* The collaborators whose code is not in this file (vote-state engine,    *)
(* spam slots, participation queue, scraper, overlay/backend, dispute      *)
(* status) are modelled from their design description.                     *)
(***************************************************************************)
EXTENDS Integers, Sequences, FiniteSets, TLC

\* ------------------------------------------------------------------ bounds

NumValidators == 7
NumCandidates == 2
MaxSession == 7
MaxMsgs == 3
\* Block numbers are taken modulo BlockNumberLimit, which stands for 2^32.
BlockNumberLimit == 16

\* Session indices are taken modulo SessionIndexLimit, which stands for 2^32.
SessionIndexLimit == 16
\* The longest list of block descriptions of a DetermineUndisputedChain.
MaxChain == 3

\* ------------------------------------------------------- program constants

\* polkadot_node_primitives::DISPUTE_WINDOW, the W of the session window.
DISPUTE_WINDOW == 6
\* The slot limit of SpamSlots (spam votes a validator may have per session).
MAX_SPAM_VOTES == 1
CHAIN_IMPORT_MAX_BATCH_SIZE == 8

Validators == 0 .. (NumValidators - 1)
Candidates == 1 .. NumCandidates
Sessions == 0 .. MaxSession
Blocks == {100, 101}
Keys == Sessions \X Candidates

\* Option values: None, or Some(x) holding x.
None == <<>>
Some(x) == <<x>>
unwrap(o) == o[1]

\* The validator indices the keystore holds a key for (env.controlled_indices()).
controlled_indices == {0}

saturating_sub(a, b) == IF a >= b THEN a - b ELSE 0

\* a + b on SessionIndex (u32), as a build without overflow checks computes it.
session_add(a, b) == (a + b) % SessionIndexLimit

Min(a, b) == IF a <= b THEN a ELSE b

\* ---------------------------------------------------------- dispute status

Active == [tag |-> "Active", at |-> 0]
Confirmed == [tag |-> "Confirmed", at |-> 0]
ConcludedFor(t) == [tag |-> "ConcludedFor", at |-> t]
ConcludedAgainst(t) == [tag |-> "ConcludedAgainst", at |-> t]

confirm(status) == IF status.tag = "Active" THEN Confirmed ELSE status

conclude_for(status, now) ==
    CASE status.tag \in {"Active", "Confirmed"} -> ConcludedFor(now)
      [] status.tag = "ConcludedFor" -> ConcludedFor(Min(status.at, now))
      [] OTHER -> status

conclude_against(status, now) ==
    CASE status.tag \in {"Active", "Confirmed", "ConcludedFor"} -> ConcludedAgainst(now)
      [] OTHER -> ConcludedAgainst(Min(status.at, now))

is_possibly_invalid(status) == status.tag # "ConcludedFor"

\* ------------------------------------------------------- vote-state engine

byzantine_threshold(n) == (n - 1) \div 3
supermajority_threshold(n) == n - byzantine_threshold(n)

\* CandidateVotes: who voted valid, who voted invalid.  The receipt is the
\* candidate itself; an entry exists only once a receipt was seen.
\* approval holds the valid voters whose vote is an approval-checking one.
NoVotes == [valid |-> {}, invalid |-> {}, approval |-> {}]

voted_indices(votes) == votes.valid \cup votes.invalid

\* CandidateVoteState::new: the predicates derived from a vote set.
vs_is_disputed(votes) == votes.valid # {} /\ votes.invalid # {}
vs_own_vote_missing(votes) ==
    controlled_indices # {} /\ controlled_indices \cap voted_indices(votes) = {}

vs_is_confirmed(votes) ==
    /\ vs_is_disputed(votes)
    /\ Cardinality(voted_indices(votes)) > byzantine_threshold(NumValidators)
vs_has_concluded_for(votes) ==
    /\ vs_is_disputed(votes)
    /\ Cardinality(votes.valid) >= supermajority_threshold(NumValidators)
vs_has_concluded_against(votes) ==
    /\ vs_is_disputed(votes)
    /\ Cardinality(votes.invalid) >= supermajority_threshold(NumValidators)

\* new_state.dispute_status(): None when undisputed, else the status the
\* votes amount to at `now`.
vs_dispute_status(votes, now) ==
    IF ~vs_is_disputed(votes) THEN None
    ELSE LET s1 == IF vs_is_confirmed(votes) THEN confirm(Active) ELSE Active
             s2 == IF vs_has_concluded_for(votes) THEN conclude_for(s1, now) ELSE s1
         IN  Some(IF vs_has_concluded_against(votes) THEN conclude_against(s2, now) ELSE s2)

\* old_state.import_statements(env, statements, now): statements are taken in
\* order; one with an index outside the validator set is dropped, a vote
\* already present is not imported again.
RECURSIVE import_fold(_, _, _)
import_fold(acc, statements, i) ==
    IF i > Len(statements) THEN acc
    ELSE LET st == statements[i]
             next ==
                 IF st.v \notin Validators THEN acc
                 ELSE IF st.valid
                      THEN IF st.v \in acc.votes.valid THEN acc
                           ELSE [acc EXCEPT !.votes.valid = @ \cup {st.v},
                                            !.votes.approval =
                                                IF st.kind = "ApprovalChecking"
                                                THEN @ \cup {st.v} ELSE @,
                                            !.imported_valid_votes = @ + 1]
                      ELSE IF st.v \in acc.votes.invalid THEN acc
                           ELSE [acc EXCEPT !.votes.invalid = @ \cup {st.v},
                                            !.imported_invalid_votes = @ + 1,
                                            !.new_invalid_voters = @ \cup {st.v}]
         IN  import_fold(next, statements, i + 1)

\* Variant: a later vote of a validator replaces its vote for the other side.
RECURSIVE import_fold_last(_, _, _)
import_fold_last(acc, statements, i) ==
    IF i > Len(statements) THEN acc
    ELSE import_fold_last(
             import_fold([acc EXCEPT !.votes.valid =
                                         IF statements[i].valid THEN @
                                         ELSE @ \ {statements[i].v},
                                     !.votes.invalid =
                                         IF statements[i].valid THEN @ \ {statements[i].v}
                                         ELSE @],
                         <<statements[i]>>, 1),
             statements, i + 1)

import_statements_last(old_votes, statements) ==
    import_fold_last([old |-> old_votes, votes |-> old_votes, new_invalid_voters |-> {},
                      imported_valid_votes |-> 0, imported_invalid_votes |-> 0],
                     statements, 1)

import_statements(old_votes, statements) ==
    import_fold([old |-> old_votes, votes |-> old_votes, new_invalid_voters |-> {},
                 imported_valid_votes |-> 0, imported_invalid_votes |-> 0],
                statements, 1)

\* The transition flags of ImportResult, each a comparison of old and new state.
is_freshly_disputed(r) == ~vs_is_disputed(r.old) /\ vs_is_disputed(r.votes)
is_freshly_confirmed(r) == ~vs_is_confirmed(r.old) /\ vs_is_confirmed(r.votes)
is_freshly_concluded_for(r) == ~vs_has_concluded_for(r.old) /\ vs_has_concluded_for(r.votes)
is_freshly_concluded_against(r) ==
    ~vs_has_concluded_against(r.old) /\ vs_has_concluded_against(r.votes)
dispute_state_changed(r) ==
    \/ is_freshly_disputed(r) \/ is_freshly_confirmed(r)
    \/ is_freshly_concluded_for(r) \/ is_freshly_concluded_against(r)
\* into_updated_votes() is Some iff the vote set changed.
votes_changed(r) == r.votes # r.old

\* -------------------------------------------------------------- spam slots

\* SpamSlots: slots counts the unconfirmed disputes per (session, validator),
\* unconfirmed remembers which (session, candidate, validator) were counted.
\* A count of zero is an absent entry.
NoSpam == [slots |-> [k \in {} |-> 0], unconfirmed |-> {}]

slot_count(spam, session, validator) ==
    IF <<session, validator>> \in DOMAIN spam.slots THEN spam.slots[<<session, validator>>]
    ELSE 0

\* Variant: a vote is counted before the limit is looked at.
add_unconfirmed_counted(spam, session, candidate, validator) ==
    IF <<session, candidate, validator>> \in spam.unconfirmed
    THEN [spam |-> spam, ok |-> TRUE]
    ELSE [spam |-> [slots |-> [k \in (DOMAIN spam.slots) \cup {<<session, validator>>} |->
                                  IF k = <<session, validator>>
                                  THEN slot_count(spam, session, validator) + 1
                                  ELSE spam.slots[k]],
                    unconfirmed |-> spam.unconfirmed
                                      \cup {<<session, candidate, validator>>}],
          ok |-> slot_count(spam, session, validator) < MAX_SPAM_VOTES]

add_unconfirmed(spam, session, candidate, validator) ==
    IF <<session, candidate, validator>> \in spam.unconfirmed
    THEN [spam |-> spam, ok |-> TRUE]
    ELSE IF slot_count(spam, session, validator) < MAX_SPAM_VOTES
         THEN [spam |-> [slots |-> [k \in (DOMAIN spam.slots) \cup {<<session, validator>>} |->
                                       IF k = <<session, validator>>
                                       THEN slot_count(spam, session, validator) + 1
                                       ELSE spam.slots[k]],
                         unconfirmed |-> spam.unconfirmed
                                           \cup {<<session, candidate, validator>>}],
               ok |-> TRUE]
         ELSE [spam |-> spam, ok |-> FALSE]

spam_clear(spam, session, candidate) ==
    LET gone == {u \in spam.unconfirmed : u[1] = session /\ u[2] = candidate}
        dec(k) == IF <<k[1], candidate, k[2]>> \in gone
                  THEN saturating_sub(spam.slots[k], 1) ELSE spam.slots[k]
    IN  [slots |-> [k \in {x \in DOMAIN spam.slots : dec(x) > 0} |-> dec(k)],
         unconfirmed |-> spam.unconfirmed \ gone]

prune_old(spam, oldest_index) ==
    [slots |-> [k \in {x \in DOMAIN spam.slots : x[1] >= oldest_index} |-> spam.slots[k]],
     unconfirmed |-> {u \in spam.unconfirmed : u[1] >= oldest_index}]

\* ------------------------------------------------------ backend and overlay

EmptyMap == [k \in {} |-> 0]
Put(f, k, v) == [x \in (DOMAIN f) \cup {k} |-> IF x = k THEN v ELSE f[x]]
Restrict(f, S) == [x \in (DOMAIN f) \cap S |-> f[x]]

\* The three columns of the store; recent_disputes is None until first written.
EmptyDb == [earliest_session |-> None, recent_disputes |-> None, candidate_votes |-> EmptyMap]

\* OverlayedBackend::new: nothing buffered.
EmptyOverlay == [earliest_session |-> None, recent_disputes |-> None, candidate_votes |-> EmptyMap]

overlay_is_empty(o) == o = EmptyOverlay

\* Backend::write(overlay.into_write_ops()): one batch, every buffered column.
backend_write(db, o) ==
    [earliest_session |-> IF o.earliest_session # None THEN o.earliest_session
                          ELSE db.earliest_session,
     recent_disputes |-> IF o.recent_disputes # None THEN o.recent_disputes
                         ELSE db.recent_disputes,
     candidate_votes |-> [k \in (DOMAIN db.candidate_votes) \cup (DOMAIN o.candidate_votes) |->
                             IF k \in DOMAIN o.candidate_votes THEN o.candidate_votes[k]
                             ELSE db.candidate_votes[k]]]

\* The loads read through the overlay.  A value buffered in the overlay is
\* returned without touching the backend; a backend read fails once the
\* reads the backend still serves (m.reads) are used up.
load_candidate_votes(m, key) ==
    IF key \in DOMAIN m.overlay.candidate_votes
    THEN [m |-> m, ok |-> TRUE, val |-> Some(m.overlay.candidate_votes[key])]
    ELSE IF m.reads = 0 THEN [m |-> m, ok |-> FALSE, val |-> None]
    ELSE [m |-> [m EXCEPT !.reads = @ - 1], ok |-> TRUE,
          val |-> IF key \in DOMAIN m.db.candidate_votes
                  THEN Some(m.db.candidate_votes[key]) ELSE None]

load_recent_disputes(m) ==
    IF m.overlay.recent_disputes # None
    THEN [m |-> m, ok |-> TRUE, val |-> m.overlay.recent_disputes]
    ELSE IF m.reads = 0 THEN [m |-> m, ok |-> FALSE, val |-> None]
    ELSE [m |-> [m EXCEPT !.reads = @ - 1], ok |-> TRUE, val |-> m.db.recent_disputes]

load_earliest_session(m) ==
    IF m.overlay.earliest_session # None
    THEN [m |-> m, ok |-> TRUE, val |-> m.overlay.earliest_session]
    ELSE IF m.reads = 0 THEN [m |-> m, ok |-> FALSE, val |-> None]
    ELSE [m |-> [m EXCEPT !.reads = @ - 1], ok |-> TRUE, val |-> m.db.earliest_session]

write_recent_disputes(m, rd) == [m EXCEPT !.overlay.recent_disputes = Some(rd)]
write_candidate_votes(m, key, votes) ==
    [m EXCEPT !.overlay.candidate_votes = Put(@, key, votes)]
write_earliest_session(m, s) == [m EXCEPT !.overlay.earliest_session = Some(s)]

\* ---------------------------------------------------------------- scraper

is_candidate_included(scraper, c) == \E b \in Blocks : <<c, b>> \in scraper.included
is_candidate_backed(scraper, c) == c \in scraper.backed
get_blocks_including_candidate(scraper, c) == {b \in Blocks : <<c, b>> \in scraper.included}

\* ----------------------------------------------------------- participation

\* Participation::queue_participation: a request already queued stays where
\* it is, except that a priority request takes it out of best-effort.
queue_participation(part, priority, key) ==
    IF priority
    THEN [priority |-> part.priority \cup {key}, best_effort |-> part.best_effort \ {key}]
    ELSE IF key \in part.priority THEN part
         ELSE [part EXCEPT !.best_effort = @ \cup {key}]

\* is_potential_spam(scraper, new_state, candidate_hash)
is_potential_spam(scraper, votes, c) ==
    /\ vs_is_disputed(votes)
    /\ ~is_candidate_included(scraper, c)
    /\ ~is_candidate_backed(scraper, c)
    /\ ~vs_is_confirmed(votes)
    /\ vs_own_vote_missing(votes)

\* ------------------------------------------------- handle_import_statements

\* What a handler returns: the state it leaves and its result, which is
\* "ValidImport", "InvalidImport", "Ok", or an error "Fatal" / "Jfyi".
Ret(m, res) == [m |-> m, res |-> res]

Send(m, msg) == [m EXCEPT !.out = Append(@, msg)]

MinOf(S) == CHOOSE v \in S : \A w \in S : v <= w

RECURSIVE SetToSeq(_)
SetToSeq(S) == IF S = {} THEN <<>> ELSE <<MinOf(S)>> \o SetToSeq(S \ {MinOf(S)})

\* A dispute statement of validator v; kind is "Explicit", "Backing" or
\* "ApprovalChecking".
Statement(v, valid, kind) == [v |-> v, valid |-> valid, kind |-> kind]
Stmt(v, valid) == Statement(v, valid, "Explicit")

OrElse(opt, default) == IF opt = None THEN default ELSE unwrap(opt)

\* Variant: the window taken one session too wide.
session_is_ancient_wide(highest_session_seen, session_idx) ==
    session_idx < saturating_sub(highest_session_seen, DISPUTE_WINDOW)

\* Variant: the bound is computed with a wrapping subtraction.
session_is_ancient_wrapping(highest_session_seen, session_idx) ==
    session_idx < (highest_session_seen - (DISPUTE_WINDOW - 1)) % SessionIndexLimit

session_is_ancient(highest_session_seen, session_idx) ==
    session_idx < saturating_sub(highest_session_seen, DISPUTE_WINDOW - 1)

\* Lines 940-947: add_unconfirmed for every new invalid voter; free tells
\* whether one of them had a free slot.
add_unconfirmed_step(a, session, c, index) ==
    [spam |-> add_unconfirmed(a.spam, session, c, index).spam,
     free |-> a.free \/ add_unconfirmed(a.spam, session, c, index).ok]

RECURSIVE add_unconfirmed_all(_, _, _, _)
add_unconfirmed_all(a, session, c, voters) ==
    IF voters = {} THEN a
    ELSE add_unconfirmed_all(add_unconfirmed_step(a, session, c, MinOf(voters)),
                             session, c, voters \ {MinOf(voters)})

\* Variant: the spam slots of a candidate that is no potential spam are kept.
import_spam_kept(spam, scraper_, session, c, r) ==
    IF ~is_potential_spam(scraper_, r.votes, c)
    THEN [spam |-> spam, free |-> TRUE]
    ELSE IF r.new_invalid_voters # {}
         THEN add_unconfirmed_all([spam |-> spam, free |-> FALSE], session, c,
                                  r.new_invalid_voters)
         ELSE [spam |-> spam, free |-> TRUE]

\* Variant: every new invalid voter is counted, a free slot or not.
import_spam_uncounted(spam, scraper_, session, c, r) ==
    IF ~is_potential_spam(scraper_, r.votes, c)
    THEN [spam |-> spam_clear(spam, session, c), free |-> TRUE]
    ELSE [spam |-> [slots |-> [k \in (DOMAIN spam.slots)
                                      \cup {<<session, v>> : v \in r.new_invalid_voters} |->
                                  slot_count(spam, k[1], k[2])
                                      + (IF /\ k[1] = session
                                            /\ k[2] \in r.new_invalid_voters
                                            /\ <<session, c, k[2]>> \notin spam.unconfirmed
                                         THEN 1 ELSE 0)],
                    unconfirmed |-> spam.unconfirmed
                                      \cup {<<session, c, v>> : v \in r.new_invalid_voters}],
          free |-> TRUE]

\* Lines 928-958: clear the candidate's spam slots, or count the new invalid
\* voters; free is FALSE when the import is to be rejected.
import_spam(spam, scraper_, session, c, r) ==
    IF ~is_potential_spam(scraper_, r.votes, c)
    THEN [spam |-> spam_clear(spam, session, c), free |-> TRUE]
    ELSE IF r.new_invalid_voters # {}
         THEN add_unconfirmed_all([spam |-> spam, free |-> FALSE], session, c,
                                  r.new_invalid_voters)
         ELSE [spam |-> spam, free |-> TRUE]

\* Variant: participation is always queued best-effort.
import_participation_best_effort(m, session, c, r) ==
    IF /\ vs_own_vote_missing(r.votes)
       /\ vs_is_disputed(r.votes)
       /\ ~is_potential_spam(m.scraper, r.votes, c)
    THEN [m EXCEPT !.part = queue_participation(@, FALSE, <<session, c>>),
                   !.queued = Append(@, [priority |-> FALSE, key |-> <<session, c>>])]
    ELSE m

\* Variant: participation is queued for potential spam too.
import_participation_spam(m, session, c, r) ==
    IF vs_own_vote_missing(r.votes) /\ vs_is_disputed(r.votes)
    THEN [m EXCEPT !.part = queue_participation(@, is_candidate_included(m.scraper, c),
                                                <<session, c>>),
                   !.queued = Append(@, [priority |-> is_candidate_included(m.scraper, c),
                                         key |-> <<session, c>>])]
    ELSE m

\* Lines 966-1009: queue participation.
import_participation(m, session, c, r) ==
    IF /\ vs_own_vote_missing(r.votes)
       /\ vs_is_disputed(r.votes)
       /\ ~is_potential_spam(m.scraper, r.votes, c)
    THEN [m EXCEPT !.part = queue_participation(@, is_candidate_included(m.scraper, c),
                                                <<session, c>>),
                   !.queued = Append(@, [priority |-> is_candidate_included(m.scraper, c),
                                         key |-> <<session, c>>])]
    ELSE m

\* make_dispute_message needs a vote of the other side among the votes.
can_make_dispute_message(votes, valid) ==
    IF valid THEN votes.invalid # {} ELSE votes.valid # {}

\* One SendDispute per index, where a dispute message can be made.
RECURSIVE send_disputes(_, _, _, _, _)
send_disputes(m, key, votes, valid, indices) ==
    IF indices = {} THEN m
    ELSE send_disputes(
             IF can_make_dispute_message(votes, valid)
             THEN Send(m, [type |-> "SendDispute", key |-> key, v |-> MinOf(indices),
                           valid |-> valid])
             ELSE m,
             key, votes, valid, indices \ {MinOf(indices)})

\* new_state.own_approval_votes()
own_approval_votes(votes) == controlled_indices \cap votes.approval

\* Variant: own approval votes are sent on every import of a disputed
\* candidate.
import_own_approvals_always(m, session, c, r) ==
    IF vs_is_disputed(r.votes)
    THEN send_disputes(m, <<session, c>>, r.votes, TRUE, own_approval_votes(r.votes))
    ELSE m

\* Lines 1011-1060: send any already existing own approval vote on a new
\* dispute.
import_own_approvals(m, session, c, r) ==
    IF is_freshly_disputed(r)
    THEN send_disputes(m, <<session, c>>, r.votes, TRUE, own_approval_votes(r.votes))
    ELSE m

\* Variant: an entry already there is set back to active.
put_recent_dispute_reset(l, key, new_status) ==
    IF ~l.ok THEN [m |-> l.m, ok |-> FALSE]
    ELSE [m |-> write_recent_disputes(
                    l.m, Put(OrElse(l.val, EmptyMap), key,
                             IF key \in DOMAIN OrElse(l.val, EmptyMap) THEN Active
                             ELSE new_status)),
          ok |-> TRUE]

\* Lines 1066-1089: the recent disputes, loaded as l, get the new status.
put_recent_dispute(l, key, new_status) ==
    IF ~l.ok THEN [m |-> l.m, ok |-> FALSE]
    ELSE [m |-> write_recent_disputes(l.m, Put(OrElse(l.val, EmptyMap), key, new_status)),
          ok |-> TRUE]

\* Variant: the recent disputes are written whenever there is a status.
import_recent_disputes_always(m, session, c, r, now) ==
    IF vs_dispute_status(r.votes, now) # None
    THEN put_recent_dispute(load_recent_disputes(m), <<session, c>>,
                            unwrap(vs_dispute_status(r.votes, now)))
    ELSE [m |-> m, ok |-> TRUE]

\* Lines 1062-1091: update recent disputes if the dispute state changed.
import_recent_disputes(m, session, c, r, now) ==
    IF vs_dispute_status(r.votes, now) # None /\ dispute_state_changed(r)
    THEN put_recent_dispute(load_recent_disputes(m), <<session, c>>,
                            unwrap(vs_dispute_status(r.votes, now)))
    ELSE [m |-> m, ok |-> TRUE]

\* Variant: RevertBlocks whenever the dispute stands concluded against.
import_revert_again(m, session, c, r) ==
    IF /\ vs_has_concluded_against(r.votes)
       /\ Cardinality(get_blocks_including_candidate(m.scraper, c)) > 0
    THEN Send(m, [type |-> "RevertBlocks", key |-> <<session, c>>,
                  blocks |-> get_blocks_including_candidate(m.scraper, c)])
    ELSE m

\* Lines 1093-1116: tell chain selection about a dispute concluded against.
import_revert(m, session, c, r) ==
    IF /\ is_freshly_concluded_against(r)
       /\ Cardinality(get_blocks_including_candidate(m.scraper, c)) > 0
    THEN Send(m, [type |-> "RevertBlocks", key |-> <<session, c>>,
                  blocks |-> get_blocks_including_candidate(m.scraper, c)])
    ELSE m

\* Variant: the votes are written only once the dispute is confirmed.
import_write_votes_late(m, session, c, r) ==
    IF votes_changed(r) /\ vs_is_confirmed(r.votes)
    THEN write_candidate_votes(m, <<session, c>>, r.votes) ELSE m

\* Variant: the votes are written by every import.
import_write_votes_always(m, session, c, r) ==
    write_candidate_votes(m, <<session, c>>, r.votes)

\* Lines 1157-1160: write the votes when they changed.
import_write_votes(m, session, c, r) ==
    IF votes_changed(r) THEN write_candidate_votes(m, <<session, c>>, r.votes) ELSE m

\* Lines 1062-1162, rd being what the update of recent disputes left.
import_finish(rd, session, c, r) ==
    IF ~rd.ok THEN Ret(rd.m, "Fatal")
    ELSE Ret(import_write_votes(import_revert(rd.m, session, c, r), session, c, r),
             "ValidImport")

\* Variant: the votes are written before the rejection for full spam slots.
import_accepted_late(m, sp, session, c, r, now) ==
    IF ~sp.free
    THEN Ret(import_write_votes([m EXCEPT !.spam = sp.spam], session, c, r), "InvalidImport")
    ELSE import_finish(
             import_recent_disputes(
                 import_own_approvals(
                     import_participation([m EXCEPT !.spam = sp.spam], session, c, r),
                     session, c, r),
                 session, c, r, now),
             session, c, r)

\* Lines 948-1091, sp being what the spam check left.
import_accepted(m, sp, session, c, r, now) ==
    IF ~sp.free THEN Ret([m EXCEPT !.spam = sp.spam], "InvalidImport")
    ELSE import_finish(
             import_recent_disputes(
                 import_own_approvals(
                     import_participation([m EXCEPT !.spam = sp.spam], session, c, r),
                     session, c, r),
                 session, c, r, now),
             session, c, r)

\* Lines 841-958, r being the import result.
import_result(m, session, c, r, now) ==
    import_accepted(m, import_spam(m.spam, m.scraper, session, c, r), session, c, r, now)

\* Lines 769-842, l being the votes loaded.  candidate_receipt is TRUE for
\* MaybeCandidateReceipt::Provides, FALSE for AssumeBackingVotePresent.
import_loaded(l, candidate_receipt, session, c, statements, now) ==
    IF ~l.ok THEN Ret(l.m, "Fatal")
    ELSE IF session \in l.m.no_info THEN Ret(l.m, "InvalidImport")
    ELSE IF ~candidate_receipt /\ l.val = None THEN Ret(l.m, "InvalidImport")
    ELSE import_result(l.m, session, c,
                       import_statements(OrElse(l.val, NoVotes), statements), now)

\* Variant: statements for an ancient session are imported too.
import_body_any_session(m, candidate_receipt, session, c, statements, now) ==
    import_loaded(load_candidate_votes(m, <<session, c>>), candidate_receipt,
                  session, c, statements, now)

\* Lines 752-768.
import_body(m, candidate_receipt, session, c, statements, now) ==
    IF session_is_ancient(m.hss, session) THEN Ret(m, "InvalidImport")
    ELSE import_loaded(load_candidate_votes(m, <<session, c>>), candidate_receipt,
                       session, c, statements, now)

\* What an import call saw and left, kept for the current input.
Snap(m) ==
    [spam |-> m.spam, part |-> m.part, overlay |-> m.overlay, out |-> m.out,
     queued |-> m.queued, reads |-> m.reads]

import_logged(m, r, candidate_receipt, session, c, statements) ==
    Ret([r.m EXCEPT !.log = Append(@, [session |-> session, c |-> c,
                                       receipt |-> candidate_receipt,
                                       statements |-> statements,
                                       info |-> session \notin m.no_info,
                                       pre |-> Snap(m), post |-> Snap(r.m),
                                       res |-> r.res])],
        r.res)

handle_import_statements(m, candidate_receipt, session, c, statements, now) ==
    import_logged(m, import_body(m, candidate_receipt, session, c, statements, now),
                  candidate_receipt, session, c, statements)

\* ---------------------------------------------------- issue_local_statement

OkUnlessFatal(r) == IF r.res = "Fatal" THEN r ELSE Ret(r.m, "Ok")

\* Lines 1215-1299: sign for the indices in signing, send, import.
issue_signed(m, c, session, valid, votes, signing, now) ==
    IF signing # {}
    THEN OkUnlessFatal(handle_import_statements(
             send_disputes(m, <<session, c>>, votes, valid, signing), TRUE, session, c,
             [i \in 1 .. Cardinality(signing) |-> Stmt(SetToSeq(signing)[i], valid)],
             now))
    ELSE Ret(m, "Ok")

\* Variant: every controlled index signs, voted or not.
issue_loaded_all(l, c, session, valid, now) ==
    IF ~l.ok THEN Ret(l.m, "Fatal")
    ELSE issue_signed(l.m, c, session, valid, OrElse(l.val, NoVotes),
                      IF l.m.sign_ok THEN controlled_indices ELSE {}, now)

\* Lines 1206-1251, l being the votes loaded.  m.sign_ok is whether the
\* keystore signs.
issue_loaded(l, c, session, valid, now) ==
    IF ~l.ok THEN Ret(l.m, "Fatal")
    ELSE issue_signed(l.m, c, session, valid, OrElse(l.val, NoVotes),
                      IF l.m.sign_ok
                      THEN controlled_indices \ voted_indices(OrElse(l.val, NoVotes))
                      ELSE {},
                      now)

\* Lines 1165-1300.
issue_local_statement(m, c, session, valid, now) ==
    IF session \in m.no_info THEN Ret(m, "Ok")
    ELSE issue_loaded(load_candidate_votes(m, <<session, c>>), c, session, valid, now)

\* ---------------------------------------------------- process_on_chain_votes

backing_statements(backers) ==
    [j \in 1 .. Cardinality(backers \cap Validators) |->
        Statement(SetToSeq(backers \cap Validators)[j], TRUE, "Backing")]

\* Lines 419-521: the backing votes of one scraped block, candidate by
\* candidate.  res is "Ok", "Return" (the early return Ok(())) or "Fatal".
RECURSIVE import_backing(_, _, _, _, _)
import_backing_next(r, session, backing, i, now) ==
    IF r.res = "Fatal" THEN r ELSE import_backing(r.m, session, backing, i + 1, now)

import_backing(m, session, backing, i, now) ==
    IF i > Len(backing) THEN Ret(m, "Ok")
    ELSE IF session \in m.no_info THEN Ret(m, "Return")
    ELSE import_backing_next(
             handle_import_statements(m, TRUE, session, backing[i].c,
                                      backing_statements(backing[i].backers), now),
             session, backing, i, now)

known_validators(statements) == SelectSeq(statements, LAMBDA st : st.v \in Validators)

\* Variant: a dispute statement set whose session info cannot be fetched
\* ends the import of the block.
RECURSIVE import_disputes_stop(_, _, _, _)
import_disputes_stop_next(r, disputes, i, now) ==
    IF r.res = "Fatal" THEN r ELSE import_disputes_stop(r.m, disputes, i + 1, now)

import_disputes_stop(m, disputes, i, now) ==
    IF i > Len(disputes) THEN Ret(m, "Ok")
    ELSE IF disputes[i].session \in m.no_info THEN Ret(m, "Ok")
    ELSE IF known_validators(disputes[i].statements) = <<>>
    THEN import_disputes_stop(m, disputes, i + 1, now)
    ELSE import_disputes_stop_next(
             handle_import_statements(m, FALSE, disputes[i].session, disputes[i].c,
                                      known_validators(disputes[i].statements), now),
             disputes, i, now)

\* Lines 523-609: the dispute statement sets of one scraped block.
RECURSIVE import_disputes(_, _, _, _)
import_disputes_next(r, disputes, i, now) ==
    IF r.res = "Fatal" THEN r ELSE import_disputes(r.m, disputes, i + 1, now)

import_disputes(m, disputes, i, now) ==
    IF i > Len(disputes) THEN Ret(m, "Ok")
    ELSE IF disputes[i].session \in m.no_info \/ known_validators(disputes[i].statements) = <<>>
    THEN import_disputes(m, disputes, i + 1, now)
    ELSE import_disputes_next(
             handle_import_statements(m, FALSE, disputes[i].session, disputes[i].c,
                                      known_validators(disputes[i].statements), now),
             disputes, i, now)

on_chain_disputes(b, votes, now) ==
    IF b.res = "Fatal" THEN b
    ELSE IF b.res = "Return" THEN Ret(b.m, "Ok")
    ELSE import_disputes(b.m, votes.disputes, 1, now)

\* Variant: the dispute statements of a block are imported before its
\* backing votes.
on_chain_backing_late(d, votes, now) ==
    IF d.res = "Fatal" THEN d
    ELSE Ret(import_backing(d.m, votes.session, votes.backing, 1, now).m, "Ok")
process_on_chain_votes_disputes_first(m, votes, now) ==
    IF votes.backing = <<>> /\ votes.disputes = <<>> THEN Ret(m, "Ok")
    ELSE on_chain_backing_late(import_disputes(m, votes.disputes, 1, now), votes, now)

\* Lines 403-612.
process_on_chain_votes(m, votes, now) ==
    IF votes.backing = <<>> /\ votes.disputes = <<>> THEN Ret(m, "Ok")
    ELSE on_chain_disputes(import_backing(m, votes.session, votes.backing, 1, now), votes, now)

\* Lines 389-397: the blocks of one batch; an error of process_on_chain_votes
\* is logged and the next block is taken.
RECURSIVE import_batch(_, _, _, _)
import_batch(m, batch, i, now) ==
    IF i > Len(batch) THEN m
    ELSE import_batch(process_on_chain_votes([m EXCEPT !.processed = Append(@, batch[i])],
                                             batch[i], now).m,
                      batch, i + 1, now)

\* Variant: the batch is taken from the back of the backlog.
drain_backlog_newest(m, chain_import_backlog_, n, now) ==
    [import_batch(m, SubSeq(chain_import_backlog_, Len(chain_import_backlog_) - n + 1,
                            Len(chain_import_backlog_)), 1, now)
        EXCEPT !.backlog = SubSeq(chain_import_backlog_, 1, Len(chain_import_backlog_) - n)]

\* Lines 383-398, chain_import_backlog_ being the backlog with the new votes
\* appended.
drain_backlog(m, chain_import_backlog_, n, now) ==
    [import_batch(m, SubSeq(chain_import_backlog_, 1, n), 1, now)
        EXCEPT !.backlog = SubSeq(chain_import_backlog_, n + 1, Len(chain_import_backlog_))]

\* Variant: the new votes are put in front of the backlog.
process_chain_import_backlog_prepend(m, new_votes, now) ==
    drain_backlog(m, new_votes \o m.backlog,
                  Min(CHAIN_IMPORT_MAX_BATCH_SIZE, Len(m.backlog \o new_votes)), now)

\* Lines 375-399: one batch of the backlog, the new votes appended first.
process_chain_import_backlog(m, new_votes, now) ==
    drain_backlog(m, m.backlog \o new_votes,
                  Min(CHAIN_IMPORT_MAX_BATCH_SIZE, Len(m.backlog \o new_votes)), now)

\* ----------------------------------------------- process_active_leaves_update

\* ChainScraper::process_active_leaves_update: the candidates the new blocks
\* back and include are remembered.
scraper_update(scraper_, u) ==
    [included |-> scraper_.included \cup {<<c, u.block>> : c \in u.included},
     backed |-> scraper_.backed \cup u.backed]

\* ChainScraper::process_finalized_block: inclusions at or below n are dropped.
process_finalized_block(scraper_, n) ==
    [scraper_ EXCEPT !.included = {i \in @ : i[2] > n}]

\* Participation::bump_to_priority_for_candidates
bump_to_priority_for_candidates(part, included) ==
    [priority |-> part.priority \cup {k \in part.best_effort : k[2] \in included},
     best_effort |-> {k \in part.best_effort : k[2] \notin included}]

\* The recent disputes rd without the sessions before the new earliest one.
prune_recent_disputes(m, rd, new_earliest_session) ==
    IF \E k \in DOMAIN rd : k[1] < new_earliest_session
    THEN write_recent_disputes(m, Restrict(rd, {k \in DOMAIN rd : k[1] >= new_earliest_session}))
    ELSE m

note_earliest_loaded(l, new_earliest_session) ==
    IF ~l.ok THEN [m |-> l.m, ok |-> FALSE]
    ELSE [m |-> prune_recent_disputes(write_earliest_session(l.m, new_earliest_session),
                                      OrElse(l.val, EmptyMap), new_earliest_session),
          ok |-> TRUE]

\* db::v1::note_earliest_session: persist the new earliest session and drop
\* the recent disputes of older sessions.
note_earliest_session(m, new_earliest_session) ==
    note_earliest_loaded(load_recent_disputes(m), new_earliest_session)

\* Lines 316-331: the dummy fetches that cache the sessions of the range.
cache_sessions(m, lower_bound, session_idx) ==
    [m EXCEPT !.gaps = @ \/ \E idx \in lower_bound .. session_idx : idx \in m.no_info,
              !.fetched = @ \o [i \in 1 .. (session_idx + 1 - lower_bound) |->
                                  lower_bound + i - 1]]

\* Lines 335-339, n being what note_earliest_session left.
window_noted(n, session_idx) ==
    IF ~n.ok THEN Ret(n.m, "Fatal")
    ELSE Ret([n.m EXCEPT !.spam = prune_old(@, saturating_sub(session_idx, DISPUTE_WINDOW - 1))],
             "Ok")

\* Variant: the whole window is fetched whether or not there are gaps.
advance_session_window_whole(m, session_idx) ==
    window_noted(
        note_earliest_session(
            [cache_sessions(m, saturating_sub(session_idx, DISPUTE_WINDOW - 1), session_idx)
                EXCEPT !.hss = session_idx],
            saturating_sub(session_idx, DISPUTE_WINDOW - 1)),
        session_idx)

\* Variant: the window is advanced only if every fetch of the attempt
\* succeeded.
advance_session_window_if_cached(m, session_idx) ==
    IF \E idx \in (IF m.gaps THEN saturating_sub(session_idx, DISPUTE_WINDOW - 1)
                   ELSE session_add(m.hss, 1)) .. session_idx : idx \in m.no_info
    THEN Ret(cache_sessions(m,
                            IF m.gaps THEN saturating_sub(session_idx, DISPUTE_WINDOW - 1)
                            ELSE session_add(m.hss, 1),
                            session_idx),
             "Ok")
    ELSE window_noted(
             note_earliest_session(
                 [cache_sessions(m,
                                 IF m.gaps THEN saturating_sub(session_idx, DISPUTE_WINDOW - 1)
                                 ELSE session_add(m.hss, 1),
                                 session_idx)
                     EXCEPT !.hss = session_idx],
                 saturating_sub(session_idx, DISPUTE_WINDOW - 1)),
             session_idx)

\* Lines 309-339 for a session index that is new or follows a caching error.
advance_session_window(m, session_idx) ==
    window_noted(
        note_earliest_session(
            [cache_sessions(m,
                            IF m.gaps THEN saturating_sub(session_idx, DISPUTE_WINDOW - 1)
                            ELSE session_add(m.hss, 1),
                            session_idx)
                EXCEPT !.hss = session_idx],
            saturating_sub(session_idx, DISPUTE_WINDOW - 1)),
        session_idx)

\* Lines 299-349: session bookkeeping for an activated leaf whose session
\* index is session_idx (None when it cannot be fetched).
update_session_window(m, session_idx) ==
    IF session_idx # None /\ (m.gaps \/ unwrap(session_idx) > m.hss)
    THEN advance_session_window(m, unwrap(session_idx))
    ELSE Ret(m, "Ok")

\* Lines 351-366, w being what the session bookkeeping left.
leaf_backlog(w, u, now) ==
    IF w.res = "Fatal" THEN w
    ELSE Ret(process_chain_import_backlog(w.m, u.on_chain_votes, now), "Ok")

\* Variant: the backlog is imported before the session window is advanced.
leaf_scraped_backlog_first(m, u, now) ==
    IF u.activated
    THEN update_session_window(process_chain_import_backlog(m, u.on_chain_votes, now),
                               u.session_idx)
    ELSE Ret(m, "Ok")

\* Lines 290-370, the scraper having succeeded.
leaf_scraped(m, u, now) ==
    IF u.activated THEN leaf_backlog(update_session_window(m, u.session_idx), u, now)
    ELSE Ret(m, "Ok")

\* Lines 282-370.
process_active_leaves_update(m, u, now) ==
    IF ~u.scraper_ok THEN Ret(m, "Jfyi")
    ELSE leaf_scraped([m EXCEPT !.scraper = scraper_update(@, u),
                                !.part = bump_to_priority_for_candidates(@, u.included)],
                      u, now)

\* Lines 184-186: the recovered participation requests are queued, from
\* (1-based) i on.  queue_participation(..).await? returns a non-fatal error
\* for the request at position fails (0: for none), which ends the call of
\* run_until_error.
RECURSIVE queue_initial(_, _, _, _)
queue_initial(m, participations, i, fails) ==
    IF i > Len(participations) THEN Ret(m, "Ok")
    ELSE IF i = fails THEN Ret(m, "Jfyi")
    ELSE queue_initial([m EXCEPT !.part = queue_participation(@, participations[i].priority,
                                                               participations[i].key)],
                       participations, i + 1, fails)

\* Lines 188-198, q being what the queueing left: the initial votes go
\* through the backlog.
initial_queued(q, initial_data, now) ==
    IF q.res = "Jfyi" THEN q
    ELSE Ret(process_chain_import_backlog(q.m, initial_data.votes, now), "Ok")

\* Lines 181-198: the initial data, taken on the first call of
\* run_until_error.
handle_initial_data(m, initial_data, now) ==
    initial_queued(queue_initial(m, initial_data.participations, 1,
                                 initial_data.queue_fails),
                   initial_data, now)

\* ------------------------------------------------ determine_undisputed_chain

\* base_number + n in BlockNumber (u32): None when the addition overflows in
\* a build with overflow checks (it panics), the wrapped sum in one without.
add_block_number(base_number, n, overflow_checks) ==
    IF base_number + n < BlockNumberLimit THEN Some(base_number + n)
    ELSE IF overflow_checks THEN None
    ELSE Some((base_number + n) % BlockNumberLimit)

\* Lines 1359-1362: the last block, computed before anything else.
last_block(base_number, base_hash, block_descriptions, overflow_checks) ==
    IF block_descriptions = <<>> THEN Some(<<base_number, base_hash>>)
    ELSE IF add_block_number(base_number, Len(block_descriptions), overflow_checks) = None
         THEN None
         ELSE Some(<<unwrap(add_block_number(base_number, Len(block_descriptions),
                                             overflow_checks)),
                     block_descriptions[Len(block_descriptions)].block_hash>>)

\* Lines 1371-1375: the closure is_possibly_invalid.
recent_is_possibly_invalid(recent_disputes, session, candidate_hash) ==
    /\ <<session, candidate_hash>> \in DOMAIN recent_disputes
    /\ is_possibly_invalid(recent_disputes[<<session, candidate_hash>>])

\* Line 1378: candidates.iter().any(..) for the description at (1-based) i.
description_disputed(recent_disputes, block_descriptions, i) ==
    \E c \in block_descriptions[i].candidates :
        recent_is_possibly_invalid(recent_disputes, block_descriptions[i].session, c)

\* Variant: the block reported is the one with the disputed candidate.
chain_before_late(base_number, base_hash, block_descriptions, i, overflow_checks) ==
    Some(<<unwrap(add_block_number(base_number, i, overflow_checks)),
           block_descriptions[i].block_hash>>)

\* Lines 1379-1383: the block before the description at (1-based) i.
chain_before(base_number, base_hash, block_descriptions, i, overflow_checks) ==
    IF i = 1 THEN Some(<<base_number, base_hash>>)
    ELSE IF add_block_number(base_number, i - 1, overflow_checks) = None THEN None
         ELSE Some(<<unwrap(add_block_number(base_number, i - 1, overflow_checks)),
                     block_descriptions[i - 1].block_hash>>)

\* Lines 1377-1387: the loop over the descriptions, from (1-based) i on.
RECURSIVE chain_from(_, _, _, _, _, _, _)
chain_from(recent_disputes, base_number, base_hash, block_descriptions, i, last, overflow_checks) ==
    IF i > Len(block_descriptions) THEN last
    ELSE IF description_disputed(recent_disputes, block_descriptions, i)
         THEN chain_before(base_number, base_hash, block_descriptions, i, overflow_checks)
         ELSE chain_from(recent_disputes, base_number, base_hash, block_descriptions, i + 1,
                         last, overflow_checks)

\* What determine_undisputed_chain returns: res is "Ok" with the block in
\* val, "Fatal", or "Panic" for the overflow panic.
ChainRet(m, res, val) == [m |-> m, res |-> res, val |-> val]
ChainResult(m, val) == IF val = None THEN ChainRet(m, "Panic", None) ELSE ChainRet(m, "Ok", val)

\* Lines 1364-1387, l being the recent disputes loaded.
chain_loaded(l, base_number, base_hash, block_descriptions, last, overflow_checks) ==
    IF ~l.ok THEN ChainRet(l.m, "Fatal", None)
    ELSE IF l.val = None \/ DOMAIN unwrap(l.val) = {} THEN ChainRet(l.m, "Ok", last)
    ELSE ChainResult(l.m, chain_from(unwrap(l.val), base_number, base_hash,
                                     block_descriptions, 1, last, overflow_checks))

\* Lines 1353-1388.
determine_undisputed_chain(m, base_number, base_hash, block_descriptions, overflow_checks) ==
    IF last_block(base_number, base_hash, block_descriptions, overflow_checks) = None
    THEN ChainRet(m, "Panic", None)
    ELSE chain_loaded(load_recent_disputes(m), base_number, base_hash, block_descriptions,
                      last_block(base_number, base_hash, block_descriptions, overflow_checks),
                      overflow_checks)

\* ------------------------------------------------------------ handle_incoming

\* Variant: every outcome is reported at once.
import_confirmation_at_once(m, pending_confirmation, outcome) ==
    IF pending_confirmation
    THEN IF m.oneshot_ok
         THEN Ret(Send(m, [type |-> "Confirm", outcome |-> outcome]), "Ok")
         ELSE Ret(m, "Jfyi")
    ELSE Ret(m, "Ok")

\* Lines 644-657: an InvalidImport is reported at once, the report of a
\* ValidImport is handed back to be called after the flush.
import_confirmation(m, pending_confirmation, outcome) ==
    IF outcome = "InvalidImport"
    THEN IF pending_confirmation
         THEN IF m.oneshot_ok
              THEN Ret(Send(m, [type |-> "Confirm", outcome |-> outcome]), "Ok")
              ELSE Ret(m, "Jfyi")
         ELSE Ret(m, "Ok")
    ELSE Ret([m EXCEPT !.pending = Some([send |-> pending_confirmation,
                                         outcome |-> outcome])], "Ok")

import_outcome(r, pending_confirmation) ==
    IF r.res = "Fatal" THEN r ELSE import_confirmation(r.m, pending_confirmation, r.res)

\* Lines 622-658.
handle_ImportStatements(m, msg, now) ==
    import_outcome(handle_import_statements(m, TRUE, msg.session, msg.c, msg.statements, now),
                   msg.pending_confirmation)

\* Lines 706-723.
handle_IssueLocalStatement(m, msg, now) ==
    issue_local_statement(m, msg.c, msg.session, msg.valid, now)

\* Participation::get_participation_result: the request leaves the workers.
get_participation_result(part, key) ==
    [priority |-> part.priority \ {key}, best_effort |-> part.best_effort \ {key}]

\* Variant: an outcome without a validity is taken as invalid.
handle_Participation_always(m, msg, now) ==
    issue_local_statement(
        [m EXCEPT !.part = get_participation_result(@, <<msg.session, msg.c>>)],
        msg.c, msg.session, msg.outcome = "Valid", now)

\* Lines 218-248: a participation result; a statement is issued when the
\* outcome has a validity.
handle_Participation(m, msg, now) ==
    IF msg.outcome \in {"Valid", "Invalid"}
    THEN issue_local_statement(
             [m EXCEPT !.part = get_participation_result(@, <<msg.session, msg.c>>)],
             msg.c, msg.session, msg.outcome = "Valid", now)
    ELSE Ret([m EXCEPT !.part = get_participation_result(@, <<msg.session, msg.c>>)], "Ok")

\* The reply sent on tx, kept with the request it answers.
ChainReply(base_number, base_hash, block_descriptions, r) ==
    [type |-> "UndisputedChain", base_number |-> base_number, base_hash |-> base_hash,
     block_descriptions |-> block_descriptions, res |-> r.res, val |-> r.val]

\* The keys of a map in the order of the BTreeMap: by session, then candidate.
KeyBefore(a, b) == a[1] < b[1] \/ (a[1] = b[1] /\ a[2] <= b[2])
FirstKey(S) == CHOOSE k \in S : \A x \in S : KeyBefore(k, x)
RECURSIVE SortedKeys(_)
SortedKeys(S) == IF S = {} THEN <<>> ELSE <<FirstKey(S)>> \o SortedKeys(S \ {FirstKey(S)})

\* recent_disputes.into_iter().map(|(k, v)| (k.0, k.1, v)).collect()
disputes_list(recent_disputes) ==
    [i \in 1 .. Cardinality(DOMAIN recent_disputes) |->
        <<SortedKeys(DOMAIN recent_disputes)[i][1], SortedKeys(DOMAIN recent_disputes)[i][2],
          recent_disputes[SortedKeys(DOMAIN recent_disputes)[i]]>>]

\* How long a concluded dispute still counts as active.
ACTIVE_DURATION == 1

\* get_active_with_status: the disputes not concluded, or concluded less than
\* ACTIVE_DURATION ago.
get_active_with_status(recent_disputes, now) ==
    Restrict(recent_disputes,
             {k \in DOMAIN recent_disputes :
                 \/ recent_disputes[k].tag \in {"Active", "Confirmed"}
                 \/ recent_disputes[k].at + ACTIVE_DURATION > now})

\* tx.send(..) of a query, its result ignored; the reply is kept with the
\* request it answers.
Reply(m, type, request, reply) ==
    Send(m, [type |-> type, request |-> request, reply |-> reply])

\* Lines 659-669, l being the recent disputes loaded.
recent_disputes_loaded(l) ==
    IF ~l.ok THEN Ret(l.m, "Fatal")
    ELSE Ret(Reply(l.m, "RecentDisputes", <<>>, disputes_list(OrElse(l.val, EmptyMap))), "Ok")

\* Lines 670-685, l being the recent disputes loaded.
active_disputes_loaded(l, now) ==
    IF ~l.ok THEN Ret(l.m, "Fatal")
    ELSE Ret(Reply(l.m, "ActiveDisputes", <<>>,
                   disputes_list(get_active_with_status(OrElse(l.val, EmptyMap), now))),
             "Ok")

\* Variant: every queried key gets an entry, with empty votes when none are
\* stored.
query_output_push_all(query_output, key, votes) ==
    Append(query_output, <<key[1], key[2], OrElse(votes, NoVotes)>>)

\* Lines 689-701: the entry pushed for a key whose votes were loaded.
query_output_push(query_output, key, votes) ==
    IF votes # None THEN Append(query_output, <<key[1], key[2], unwrap(votes)>>)
    ELSE query_output

\* Lines 686-704: the loop over the queried keys, from (1-based) i on.
RECURSIVE query_candidate_votes(_, _, _, _)
query_votes_loaded(l, query, i, query_output) ==
    IF ~l.ok THEN Ret(l.m, "Fatal")
    ELSE query_candidate_votes(l.m, query, i + 1,
                               query_output_push(query_output, query[i], l.val))

query_candidate_votes(m, query, i, query_output) ==
    IF i > Len(query) THEN Ret(Reply(m, "QueryCandidateVotes", query, query_output), "Ok")
    ELSE query_votes_loaded(load_candidate_votes(m, query[i]), query, i, query_output)

\* Lines 724-742, r being what determine_undisputed_chain returned.  A panic
\* takes the subsystem down, as a fatal error does.
undisputed_chain_reply(r, msg) ==
    IF r.res # "Ok" THEN Ret(r.m, "Fatal")
    ELSE Ret(Send(r.m, ChainReply(msg.base_number, msg.base_hash, msg.block_descriptions, r)),
             "Ok")

\* Lines 659-705 and 724-742: the queries.
handle_Query(m, msg, now) ==
    CASE msg.type = "RecentDisputes" -> recent_disputes_loaded(load_recent_disputes(m))
      [] msg.type = "ActiveDisputes" -> active_disputes_loaded(load_recent_disputes(m), now)
      [] msg.type = "QueryCandidateVotes" -> query_candidate_votes(m, msg.query, 1, <<>>)
      [] OTHER ->
            undisputed_chain_reply(
                determine_undisputed_chain(m, msg.base_number, msg.base_hash,
                                           msg.block_descriptions, msg.overflow_checks),
                msg)

\* Variant: Conclude is handled like any other signal and the loop goes on.
handle_Conclude_ignored(m) == Ret(m, "Ok")

\* Lines 249-250: OverseerSignal::Conclude => return Ok(()), which run (lines
\* 156-160) answers by returning Ok(()) itself.
handle_Conclude(m) == Ret(m, "Done")

\* MuxedMessage::receive, lines 1322-1327: the fatal error an event on one of
\* the two channels becomes.
receive_error(event) ==
    IF event = "overseer_error" THEN "SubsystemReceive"
    ELSE "ParticipationWorkerReceiverExhausted"

\* Variant: the error of receive is logged and the loop goes on.
receive_failed_logged(m) == Ret(m, "Jfyi")

\* Line 215-216: receive(..).await? returns the error from run_until_error,
\* and log_error(res)? at line 163 returns it from run, being fatal.
receive_failed(m) == Ret(m, "Fatal")

\* ------------------------------------------------------------------- state

\* The dispute coordinator runs no PVF execute worker of its own.
NoWorker == [main |-> "none"]

VARIABLES
    pc,                    \* position of run: "recv", "flush", "confirm", "done", "fatal"
    steps,                 \* inputs received so far; the clock's now
    highest_session_seen,
    gaps_in_cache,
    spam_slots,
    participation,         \* the requests queued, priority and best-effort
    scraper,
    chain_import_backlog,
    db,                    \* the backend
    overlay_db,            \* the overlay of the input being handled
    confirm_write,         \* the confirmation deferred until after the flush
    written,               \* the overlay of this input was written to the backend
    err,                   \* how handling the current input ended
    out,                   \* messages sent while handling the current input
    queued,                \* queue_participation calls of the current input
    log,                   \* the handle_import_statements calls of the current input
    input,                 \* the kind of the current input, and its oneshot sender
    processed,             \* the scraped vote sets the last input took off the backlog
    waited,                \* per vote set in the backlog or just processed: the position
                           \* it entered at, and the activated leaves handled since
    fetched,               \* the sessions the last input made the session cache fetch
    reverted,              \* every RevertBlocks sent so far, and whether one repeated
    worker                 \* the PVF execute worker: its main thread and its job threads

vars == <<pc, steps, highest_session_seen, gaps_in_cache, spam_slots, participation,
          scraper, chain_import_backlog, db, overlay_db, confirm_write, written, err,
          out, queued, log, input, processed, waited, fetched, reverted, worker>>

\* ------------------------------------------------------------------ inputs

Unlimited == 9

\* The sessions statements arrive for: the two around the ancient bound of
\* the highest session the model starts with.
ImportSessions == {s \in Sessions : s + DISPUTE_WINDOW \in {MaxSession - 1, MaxSession}}

Others == SetToSeq(Validators \ {0, 1, 2})
AllOf(seq, valid) == [i \in 1 .. Len(seq) |-> Stmt(seq[i], valid)]

\* The statement vectors of an import: a dispute pair, a third voter, a
\* supermajority on either side, an index outside the validator set, and an
\* approval vote of our own.
StatementBatches ==
    { <<Stmt(1, TRUE), Stmt(2, FALSE)>>,
      <<Stmt(1, TRUE), Stmt(3, FALSE)>>,
      <<Stmt(3, TRUE)>>,
      <<Stmt(1, TRUE), Stmt(2, FALSE)>> \o AllOf(Others, FALSE),
      <<Stmt(2, FALSE), Stmt(1, TRUE)>> \o AllOf(Others, TRUE),
      <<Stmt(NumValidators, FALSE)>>,
      <<Statement(0, TRUE, "ApprovalChecking")>> }
PlainBatch == <<Stmt(1, TRUE), Stmt(2, FALSE)>>

\* What can go wrong while one input is handled: the backend serves only
\* `reads` reads, the session info of the sessions in no_info is unavailable,
\* a oneshot receiver is gone, the keystore does not sign.
NoFault == [reads |-> Unlimited, no_info |-> {}, oneshot_ok |-> TRUE, sign_ok |-> TRUE]
ReadFault(n) == [NoFault EXCEPT !.reads = n]
InfoFault(S) == [NoFault EXCEPT !.no_info = S]
OneshotFault == [NoFault EXCEPT !.oneshot_ok = FALSE]
SignFault == [NoFault EXCEPT !.sign_ok = FALSE]

\* ImportStatements inputs: every statement vector without a fault, and each
\* fault (and a missing pending_confirmation) with the dispute pair.
ImportInputs ==
    { [session |-> s, c |-> c, statements |-> b, pending_confirmation |-> TRUE,
       fault |-> NoFault] : s \in ImportSessions, c \in Candidates, b \in StatementBatches }
    \cup
    { [session |-> s, c |-> c, statements |-> PlainBatch, pending_confirmation |-> p,
       fault |-> f] :
        s \in ImportSessions, c \in Candidates, p \in BOOLEAN,
        f \in {NoFault, ReadFault(0), InfoFault(ImportSessions), OneshotFault} }

IssueInputs ==
    { [session |-> s, c |-> c, valid |-> v, fault |-> f] :
        s \in ImportSessions, c \in Candidates, v \in BOOLEAN,
        f \in {NoFault, ReadFault(0), InfoFault(ImportSessions), SignFault} }

\* The scraped votes of one block: backing votes for a candidate, a dispute
\* statement set on it, both or neither.
OnChainVotes ==
    { [session |-> MaxSession - DISPUTE_WINDOW, backing |-> b,
       disputes |-> IF d THEN <<[c |-> 1, session |-> MaxSession - DISPUTE_WINDOW,
                                 statements |-> <<Stmt(2, FALSE)>>]>>
                    ELSE <<>>] :
        b \in {<<>>, <<[c |-> 1, backers |-> {1}]>>}, d \in BOOLEAN }
NoOnChainVotes == [session |-> MaxSession - DISPUTE_WINDOW, backing |-> <<>>, disputes |-> <<>>]

\* The scraped votes of a block with two dispute statement sets, of the next
\* session and of the session of the block, with or without backing votes.
TwoDisputeSets(b) ==
    [session |-> MaxSession - DISPUTE_WINDOW, backing |-> b,
     disputes |-> <<[c |-> 2, session |-> MaxSession - DISPUTE_WINDOW + 1,
                     statements |-> <<Stmt(2, FALSE)>>],
                    [c |-> 1, session |-> MaxSession - DISPUTE_WINDOW,
                     statements |-> <<Stmt(2, FALSE)>>]>>]

\* A leaf update: whether it activates a leaf, the session index of the leaf
\* (None when it cannot be fetched), what the scraper finds, and the faults.
LeafSessions == {0, MaxSession - 2, MaxSession - 1, MaxSession, MaxSession + 1}
Scraped == {[included |-> {}, backed |-> {}], [included |-> {1}, backed |-> {}],
            [included |-> {}, backed |-> {1}]}
Leaf(a, i, sc, v, ok, f) ==
    [activated |-> a, session_idx |-> i, block |-> IF a THEN 100 ELSE 101,
     included |-> sc.included, backed |-> sc.backed, on_chain_votes |-> v,
     scraper_ok |-> ok, fault |-> f]
LeafInputs ==
    \* the session window moves, with and without a failing fetch
    { Leaf(TRUE, i, [included |-> {}, backed |-> {}], <<NoOnChainVotes>>, TRUE, f) :
        i \in {None} \cup {Some(x) : x \in LeafSessions},
        f \in {NoFault, ReadFault(0), InfoFault({MaxSession})} }
    \cup
    \* scraped votes are imported, within the session or after it moved on
    { Leaf(TRUE, Some(i), sc, <<v>>, TRUE, f) :
        i \in {MaxSession - 1, MaxSession}, sc \in Scraped, v \in OnChainVotes,
        f \in {NoFault, ReadFault(1), InfoFault({MaxSession - DISPUTE_WINDOW})} }
    \cup
    \* two dispute statement sets, the session info of one session missing
    { Leaf(TRUE, Some(MaxSession - 1), [included |-> {}, backed |-> {}],
           <<TwoDisputeSets(b)>>, TRUE, InfoFault({i})) :
        b \in {<<>>, <<[c |-> 1, backers |-> {1}]>>},
        i \in {MaxSession - DISPUTE_WINDOW, MaxSession - DISPUTE_WINDOW + 1} }
    \cup
    \* no leaf is activated, or the scraper fails
    { Leaf(FALSE, None, sc, <<>>, ok, NoFault) : sc \in Scraped, ok \in BOOLEAN }

\* The hash of the base block, and of the block described at position i.
BaseHash == 200
BlockHash(i) == 200 + i

\* A block description of a chain query: the candidates of a session that
\* the block at position i includes.
Description(i, session, candidates) ==
    [block_hash |-> BlockHash(i), session |-> session, candidates |-> candidates]

\* The queries: the two dispute lists, votes of no, one and two candidates,
\* and a chain of no or two blocks; each of them with a backend that fails.
QueryInputs ==
    { [type |-> t, fault |-> f] :
        t \in {"RecentDisputes", "ActiveDisputes"}, f \in {NoFault, ReadFault(0)} }
    \cup
    { [type |-> "QueryCandidateVotes", query |-> q, fault |-> f] :
        q \in {<<>>, <<<<MaxSession - DISPUTE_WINDOW, 1>>>>,
               <<<<MaxSession - DISPUTE_WINDOW, 2>>, <<MaxSession - DISPUTE_WINDOW, 1>>>>},
        f \in {NoFault, ReadFault(1)} }
    \cup
    { [type |-> "DetermineUndisputedChain", base_number |-> 10, base_hash |-> BaseHash,
       block_descriptions |-> d, overflow_checks |-> TRUE, fault |-> f] :
        d \in {<<>>, <<Description(1, MaxSession - DISPUTE_WINDOW, {2}),
                       Description(2, MaxSession - DISPUTE_WINDOW, {1})>>},
        f \in {NoFault, ReadFault(0)} }

\* What is remembered of the input being handled.
Input(type, pending_confirmation) ==
    [type |-> type, pending_confirmation |-> pending_confirmation]

\* What is remembered of a query: also how many reads the backend served.
QueryInput(q) ==
    [type |-> q.type, pending_confirmation |-> FALSE, reads |-> q.fault.reads]

\* What is remembered of a leaf update: also the leaf, its session and the
\* sessions whose info cannot be fetched.
LeafInput(u) ==
    [type |-> "ActiveLeaves", pending_confirmation |-> FALSE, activated |-> u.activated,
     session_idx |-> u.session_idx, scraper_ok |-> u.scraper_ok, reads |-> u.fault.reads,
     no_info |-> u.fault.no_info]

\* Variant: the overlay of the input before is handed on.
M0_kept_overlay(f) ==
    [hss |-> highest_session_seen, gaps |-> gaps_in_cache, spam |-> spam_slots,
     part |-> participation, scraper |-> scraper, backlog |-> chain_import_backlog,
     db |-> db, overlay |-> overlay_db, pending |-> None,
     out |-> <<>>, queued |-> <<>>, log |-> <<>>, fetched |-> <<>>,
     processed |-> <<>>,
     reads |-> f.reads, no_info |-> f.no_info, oneshot_ok |-> f.oneshot_ok,
     sign_ok |-> f.sign_ok]

\* What is remembered of a participation result: also the request it answers,
\* its outcome and the faults.
ParticipationInput(msg, f) ==
    [type |-> "Participation", pending_confirmation |-> FALSE, session |-> msg.session,
     c |-> msg.c, outcome |-> msg.outcome, reads |-> f.reads, no_info |-> f.no_info]

\* What is remembered of an IssueLocalStatement: also the candidate and the
\* validity asked for.
IssueInput(i) ==
    [type |-> "IssueLocalStatement", pending_confirmation |-> FALSE, session |-> i.session,
     c |-> i.c, valid |-> i.valid, reads |-> i.fault.reads]

\* The record the handlers thread: the loop's state, a fresh overlay, and
\* the faults of this input.
M0(f) ==
    [hss |-> highest_session_seen, gaps |-> gaps_in_cache, spam |-> spam_slots,
     part |-> participation, scraper |-> scraper, backlog |-> chain_import_backlog,
     db |-> db, overlay |-> EmptyOverlay, pending |-> None,
     out |-> <<>>, queued |-> <<>>, log |-> <<>>, fetched |-> <<>>,
     processed |-> <<>>,
     reads |-> f.reads, no_info |-> f.no_info, oneshot_ok |-> f.oneshot_ok,
     sign_ok |-> f.sign_ok]

\* ------------------------------------------------------------------ actions

\* The RevertBlocks messages among the messages sent, as (key, blocks), and
\* whether one of them was sent more than once.
reverts_of(msgs) ==
    {<<msgs[i].key, msgs[i].blocks>> : i \in {j \in DOMAIN msgs : msgs[j].type = "RevertBlocks"}}
reverts_repeat(msgs) ==
    \E i, j \in DOMAIN msgs :
        /\ i # j /\ msgs[i].type = "RevertBlocks" /\ msgs[j].type = "RevertBlocks"
        /\ msgs[i].key = msgs[j].key /\ msgs[i].blocks = msgs[j].blocks

Init ==
    /\ pc = "recv"
    /\ steps = 0
    /\ highest_session_seen = MaxSession - 1
    /\ gaps_in_cache = FALSE
    /\ spam_slots = NoSpam
    /\ participation = [priority |-> {}, best_effort |-> {}]
    /\ scraper = [included |-> {}, backed |-> {}]
    /\ chain_import_backlog = <<>>
    /\ db = EmptyDb
    /\ overlay_db = EmptyOverlay
    /\ confirm_write = None
    /\ written = FALSE
    /\ err = "Ok"
    /\ out = <<>>
    /\ queued = <<>>
    /\ log = <<>>
    /\ input = Input("None", FALSE)
    /\ processed = <<>>
    /\ waited = EmptyMap
    /\ fetched = <<>>
    /\ reverted = [sent |-> {}, twice |-> FALSE]
    /\ worker = NoWorker

\* Lines 211-270: what the loop is left with once the input is handled.  An
\* error ends run_until_error: a fatal one ends run, any other is logged and
\* run calls run_until_error again.  The overlay is dropped in both cases.
AfterHandling(r, inp) ==
    /\ input' = inp
    /\ steps' = steps + 1
    /\ highest_session_seen' = r.m.hss
    /\ gaps_in_cache' = r.m.gaps
    /\ spam_slots' = r.m.spam
    /\ participation' = r.m.part
    /\ scraper' = r.m.scraper
    /\ chain_import_backlog' = r.m.backlog
    /\ overlay_db' = r.m.overlay
    /\ confirm_write' = r.m.pending
    /\ written' = FALSE
    /\ err' = IF r.res \in {"Fatal", "Jfyi"} THEN r.res ELSE "Ok"
    /\ out' = r.m.out
    /\ queued' = r.m.queued
    /\ log' = r.m.log
    /\ fetched' = r.m.fetched
    /\ processed' = r.m.processed
    /\ reverted' = [sent |-> reverted.sent \cup reverts_of(r.m.out),
                     twice |-> \/ reverted.twice
                               \/ reverts_of(r.m.out) \cap reverted.sent # {}
                               \/ reverts_repeat(r.m.out)]
    /\ pc' = CASE r.res = "Fatal" -> "fatal"
               [] r.res = "Done" -> "done"
               [] r.res = "Jfyi" -> "recv"
               [] OTHER -> "flush"
    /\ UNCHANGED <<db, waited, worker>>

Receiving == pc = "recv" /\ steps < MaxMsgs

RecvImportStatements ==
    /\ Receiving
    /\ \E i \in ImportInputs : AfterHandling(handle_ImportStatements(M0(i.fault), i, steps),
                        Input("ImportStatements", i.pending_confirmation /\ i.fault.oneshot_ok))

RecvIssueLocalStatement ==
    /\ Receiving
    /\ \E i \in IssueInputs : AfterHandling(handle_IssueLocalStatement(M0(i.fault), i, steps),
                        IssueInput(i))

RecvParticipation ==
    /\ Receiving
    /\ \E k \in (IF participation.priority # {} THEN participation.priority
                 ELSE participation.best_effort),
          outcome \in {"Valid", "Invalid", "Unavailable"}, f \in {NoFault, ReadFault(0)} :
          AfterHandling(handle_Participation(
              M0(f), [session |-> k[1], c |-> k[2], outcome |-> outcome], steps),
              ParticipationInput([session |-> k[1], c |-> k[2], outcome |-> outcome], f))

RecvActiveLeaves ==
    /\ Receiving
    /\ \E u \in LeafInputs : AfterHandling(process_active_leaves_update(M0(u.fault), u, steps),
                        LeafInput(u))

RecvQuery ==
    /\ Receiving
    /\ \E q \in QueryInputs : AfterHandling(handle_Query(M0(q.fault), q, steps),
                        QueryInput(q))

RecvConclude ==
    /\ Receiving
    /\ AfterHandling(handle_Conclude(M0(NoFault)), Input("Conclude", FALSE))

RecvFailure ==
    /\ Receiving
    /\ \E event \in {"overseer_error", "worker_closed"} :
          AfterHandling(receive_failed(M0(NoFault)), Input(receive_error(event), FALSE))

RecvBlockFinalized ==
    /\ Receiving
    /\ \E n \in Blocks :
          AfterHandling(Ret([M0(NoFault) EXCEPT !.scraper = process_finalized_block(@, n)],
                            "Ok"),
                        Input("BlockFinalized", FALSE))

\* Where the loop goes on after the write: the write of the initial data
\* (lines 200-203) is followed by the first leaf, the write of an input (lines
\* 272-275) by its confirmation.
AfterFlush == IF input.type = "InitialData" THEN "first_leaf" ELSE "confirm"

\* Lines 200-203 and 272-275: the batched write, which the backend may refuse.
Flush ==
    /\ pc = "flush"
    /\ IF overlay_is_empty(overlay_db)
       THEN pc' = AfterFlush /\ UNCHANGED <<db, written, err>>
       ELSE \E ok \in BOOLEAN :
               IF ok
               THEN /\ db' = backend_write(db, overlay_db)
                    /\ written' = TRUE
                    /\ pc' = AfterFlush
                    /\ UNCHANGED err
               ELSE pc' = "fatal" /\ err' = "Fatal" /\ UNCHANGED <<db, written>>
    /\ UNCHANGED <<steps, highest_session_seen, gaps_in_cache, spam_slots, participation,
                   scraper, chain_import_backlog, overlay_db, confirm_write, out, queued,
                   log, input, processed, waited, fetched, reverted,
                   worker>>

\* Line 278: confirm_write()?.  A failed send is a non-fatal error.
ConfirmWrite ==
    /\ pc = "confirm"
    /\ pc' = "recv"
    /\ IF confirm_write # None /\ unwrap(confirm_write).send
       THEN \E ok \in BOOLEAN :
               IF ok
               THEN /\ out' = Append(out, [type |-> "Confirm",
                                           outcome |-> unwrap(confirm_write).outcome])
                    /\ UNCHANGED err
               ELSE err' = "Jfyi" /\ UNCHANGED out
       ELSE UNCHANGED <<out, err>>
    /\ UNCHANGED <<steps, highest_session_seen, gaps_in_cache, spam_slots, participation,
                   scraper, chain_import_backlog, db, overlay_db, confirm_write, written,
                   queued, log, input, processed, waited, fetched, reverted,
                   worker>>

Next ==
    \/ RecvImportStatements
    \/ RecvIssueLocalStatement
    \/ RecvParticipation
    \/ RecvActiveLeaves
    \/ RecvBlockFinalized
    \/ RecvQuery
    \/ RecvConclude
    \/ RecvFailure
    \/ Flush
    \/ ConfirmWrite

Spec == Init /\ [][Next]_vars

\* ------------------------------------- determine_undisputed_chain on its own

\* Base block numbers: low ones, and the two highest of BlockNumber.
ChainBases == {0, 10, BlockNumberLimit - 2, BlockNumberLimit - 1}
ChainSessions == {0, 1}
ChainCandidates == {{}, Candidates} \cup {{c} : c \in Candidates}

\* Every list of at most MaxChain block descriptions.
ChainDescriptions ==
    UNION {{[i \in 1 .. n |-> [block_hash |-> BlockHash(i), session |-> f[i][1],
                               candidates |-> f[i][2]]] :
               f \in [1 .. n -> ChainSessions \X ChainCandidates]} : n \in 0 .. MaxChain}

\* What the backend holds as recent disputes: nothing, an empty map, and
\* maps with each status.
ChainDisputes ==
    {None, Some(EmptyMap),
     Some(Put(EmptyMap, <<1, 2>>, Active)),
     Some(Put(EmptyMap, <<1, 2>>, ConcludedFor(0))),
     Some(Put(Put(EmptyMap, <<1, 1>>, ConcludedAgainst(0)), <<0, 2>>, Confirmed)),
     Some(Put(Put(EmptyMap, <<0, 1>>, Active), <<1, 2>>, ConcludedFor(0)))}

InitChain ==
    /\ pc = "recv"
    /\ steps = 0
    /\ highest_session_seen = MaxSession - 1
    /\ gaps_in_cache = FALSE
    /\ spam_slots = NoSpam
    /\ participation = [priority |-> {}, best_effort |-> {}]
    /\ scraper = [included |-> {}, backed |-> {}]
    /\ chain_import_backlog = <<>>
    /\ \E rd \in ChainDisputes : db = [EmptyDb EXCEPT !.recent_disputes = rd]
    /\ overlay_db = EmptyOverlay
    /\ confirm_write = None
    /\ written = FALSE
    /\ err = "Ok"
    /\ out = <<>>
    /\ queued = <<>>
    /\ log = <<>>
    /\ input = Input("None", FALSE)
    /\ processed = <<>>
    /\ waited = EmptyMap
    /\ fetched = <<>>
    /\ reverted = [sent |-> {}, twice |-> FALSE]
    /\ worker = NoWorker

\* determine_undisputed_chain applied to one request, against the backend.
ChainQuery ==
    /\ steps = 0
    /\ steps' = 1
    /\ \E base_number \in ChainBases, block_descriptions \in ChainDescriptions,
          overflow_checks \in BOOLEAN :
          out' = <<ChainReply(base_number, BaseHash, block_descriptions,
                              determine_undisputed_chain(M0(NoFault), base_number, BaseHash,
                                                         block_descriptions,
                                                         overflow_checks))>>
    /\ input' = Input("DetermineUndisputedChain", FALSE)
    /\ UNCHANGED <<pc, highest_session_seen, gaps_in_cache, spam_slots, participation,
                   scraper, chain_import_backlog, db, overlay_db, confirm_write, written,
                   err, queued, log, processed, waited, fetched, reverted,
                   worker>>

NextChain == ChainQuery

SpecChain == InitChain /\ [][NextChain]_vars

\* ------------------------------------------------- the backlog on its own

\* The backlog is never let grow beyond MaxBacklog; the scraped vote sets are
\* numbered modulo IdLimit, so that those in the backlog differ.
MaxBacklog == 18
IdLimit == 2 * MaxBacklog
InitialVoteCounts == {0, 5, 9, 17}
NewVoteCounts == {0, 1, 3, 9}

\* k scraped vote sets without votes in them, numbered from first_id on.
ScrapedVotes(first_id, k) ==
    [j \in 1 .. k |-> [id |-> (first_id + j - 1) % IdLimit,
                       session |-> MaxSession - DISPUTE_WINDOW,
                       backing |-> <<>>, disputes |-> <<>>]]
NextId ==
    IF chain_import_backlog = <<>> THEN 0
    ELSE (chain_import_backlog[Len(chain_import_backlog)].id + 1) % IdLimit

\* The recovered participation requests are at most MaxQueued.
MaxQueued == 2
InitialParticipations ==
    {<<>>, <<[priority |-> TRUE, key |-> <<MaxSession - DISPUTE_WINDOW, 1>>]>>,
     <<[priority |-> FALSE, key |-> <<MaxSession - DISPUTE_WINDOW, 1>>],
       [priority |-> TRUE, key |-> <<MaxSession - DISPUTE_WINDOW, 2>>]>>}

\* What is remembered of the initial data or of a leaf update: also the
\* scraped votes it brought.
BacklogInput(type, activated, on_chain_votes) ==
    [type |-> type, pending_confirmation |-> FALSE, activated |-> activated,
     on_chain_votes |-> on_chain_votes]

IdsOf(votes) == {votes[i].id : i \in DOMAIN votes}
PositionOf(votes, id) == CHOOSE i \in DOMAIN votes : votes[i].id = id

\* The bookkeeping of waited for an input that brought new_votes: a vote set
\* enters at its (0-based) position in the backlog with the new votes
\* appended, and every vote set there has one more activated leaf handled.
Waiting(activated, new_votes) ==
    IF ~activated THEN Restrict(waited, IdsOf(chain_import_backlog))
    ELSE [id \in IdsOf(chain_import_backlog \o new_votes) |->
             IF id \in IdsOf(chain_import_backlog)
             THEN [p |-> waited[id].p, n |-> waited[id].n + 1]
             ELSE [p |-> PositionOf(chain_import_backlog \o new_votes, id) - 1, n |-> 1]]

InitBacklog ==
    /\ pc = "start"
    /\ steps = 0
    /\ highest_session_seen = MaxSession - 1
    /\ gaps_in_cache = FALSE
    /\ spam_slots = NoSpam
    /\ participation = [priority |-> {}, best_effort |-> {}]
    /\ scraper = [included |-> {}, backed |-> {}]
    /\ chain_import_backlog = <<>>
    /\ db = EmptyDb
    /\ overlay_db = EmptyOverlay
    /\ confirm_write = None
    /\ written = FALSE
    /\ err = "Ok"
    /\ out = <<>>
    /\ queued = <<>>
    /\ log = <<>>
    /\ input = Input("None", FALSE)
    /\ processed = <<>>
    /\ waited = EmptyMap
    /\ fetched = <<>>
    /\ reverted = [sent |-> {}, twice |-> FALSE]
    /\ worker = NoWorker

\* What the loop is left with once the input is handled, as in
\* AfterHandling.  The clock stands still: the vote sets hold no votes, so
\* that `now` is not used.
BacklogHandled(r, inp) ==
    /\ input' = inp
    /\ highest_session_seen' = r.m.hss
    /\ gaps_in_cache' = r.m.gaps
    /\ spam_slots' = r.m.spam
    /\ participation' = r.m.part
    /\ scraper' = r.m.scraper
    /\ chain_import_backlog' = r.m.backlog
    /\ overlay_db' = r.m.overlay
    /\ confirm_write' = r.m.pending
    /\ written' = FALSE
    /\ err' = IF r.res \in {"Fatal", "Jfyi"} THEN r.res ELSE "Ok"
    /\ out' = r.m.out
    /\ queued' = r.m.queued
    /\ log' = r.m.log
    /\ fetched' = r.m.fetched
    /\ processed' = r.m.processed
    /\ waited' = Waiting(inp.activated, inp.on_chain_votes)
    /\ pc' = CASE r.res = "Fatal" -> "fatal"
               [] r.res = "Jfyi" -> "recv"
               [] OTHER -> "flush"
    /\ UNCHANGED <<steps, db, reverted, worker>>

\* What is remembered of the initial data: the first leaf counts as handled
\* when queue_fails is 0, that is when the votes were reached.
InitialInput(d) ==
    [type |-> "InitialData", pending_confirmation |-> FALSE, activated |-> d.queue_fails = 0,
     on_chain_votes |-> IF d.queue_fails = 0 THEN d.votes ELSE <<>>,
     votes |-> d.votes, participations |-> d.participations, queue_fails |-> d.queue_fails]

InitialDatas ==
    {[participations |-> ps, votes |-> ScrapedVotes(0, n), queue_fails |-> k] :
        ps \in InitialParticipations, n \in InitialVoteCounts, k \in 0 .. MaxQueued}

\* Lines 181-198: the first call of run_until_error takes the initial data.
Bootstrap ==
    /\ pc = "start"
    /\ \E d \in {x \in InitialDatas : x.queue_fails <= Len(x.participations)} :
          BacklogHandled(handle_initial_data(M0(NoFault), d, steps), InitialInput(d))

\* Lines 205-208: the first leaf is handed to participation, which may
\* return an error; the loop is entered, at once or on the next call of
\* run_until_error.
ForwardFirstLeaf ==
    /\ pc = "first_leaf"
    /\ pc' = "recv"
    /\ \E ok \in BOOLEAN :
          IF ok
          THEN out' = Append(out, [type |-> "ParticipationLeaf"]) /\ UNCHANGED err
          ELSE err' = "Jfyi" /\ UNCHANGED out
    /\ UNCHANGED <<steps, highest_session_seen, gaps_in_cache, spam_slots, participation,
                   scraper, chain_import_backlog, db, overlay_db, confirm_write, written,
                   queued, log, input, processed, waited, fetched, reverted,
                   worker>>

\* A leaf update of the session the window is at: one that activates a leaf
\* brings scraped votes.
BacklogLeaf ==
    /\ pc = "recv"
    /\ \E a \in BOOLEAN, k \in NewVoteCounts, ok \in BOOLEAN :
          /\ Len(chain_import_backlog) + k <= MaxBacklog
          /\ ~a => k = 0
          /\ ~ok => ~a
          /\ BacklogHandled(
                 process_active_leaves_update(
                     M0(NoFault),
                     Leaf(a, Some(highest_session_seen), [included |-> {}, backed |-> {}],
                          ScrapedVotes(NextId, k), ok, NoFault),
                     steps),
                 BacklogInput("ActiveLeaves", a, ScrapedVotes(NextId, k)))

NextBacklog ==
    \/ Bootstrap
    \/ ForwardFirstLeaf
    \/ BacklogLeaf
    \/ Flush
    \/ ConfirmWrite

SpecBacklog == InitBacklog /\ [][NextBacklog]_vars

\* A leaf update that activates a leaf is handled.
ActivatedLeafHandled ==
    /\ pc = "recv"
    /\ pc' = "flush"
    /\ input'.type = "ActiveLeaves"
    /\ input'.activated

\* The runs in which leaf updates that activate a leaf keep being handled.
\* The loop itself does not stop between its positions: the initial data is
\* taken, the overlay is flushed and the write confirmed (lines 181-208 and
\* 272-278 run to completion once reached).  That an activated leaf arrives
\* again and again is up to the overseer.
SpecBacklogLive ==
    /\ SpecBacklog
    /\ WF_vars(Bootstrap)
    /\ WF_vars(ForwardFirstLeaf)
    /\ WF_vars(Flush)
    /\ WF_vars(ConfirmWrite)
    /\ []<><<ActivatedLeafHandled>>_vars

\* ------------------------------------------------------------ observations

\* The imports of the current input, as logged.
Imports == {log[i] : i \in DOMAIN log}

\* The votes an import found stored: buffered in the overlay it started
\* with, else in the backend (which is the backend the import read as long
\* as the overlay of the current input has not been written).
StoredVotes(e) ==
    IF <<e.session, e.c>> \in DOMAIN e.pre.overlay.candidate_votes
    THEN Some(e.pre.overlay.candidate_votes[<<e.session, e.c>>])
    ELSE IF <<e.session, e.c>> \in DOMAIN db.candidate_votes
         THEN Some(db.candidate_votes[<<e.session, e.c>>])
         ELSE None

\* The votes after the statements of the import are added to the stored ones.
ValidAfter(e) ==
    OrElse(StoredVotes(e), NoVotes).valid
        \cup {e.statements[i].v : i \in {j \in DOMAIN e.statements :
                 e.statements[j].valid /\ e.statements[j].v \in Validators}}
InvalidAfter(e) ==
    OrElse(StoredVotes(e), NoVotes).invalid
        \cup {e.statements[i].v : i \in {j \in DOMAIN e.statements :
                 ~e.statements[j].valid /\ e.statements[j].v \in Validators}}
NewInvalidVoters(e) == InvalidAfter(e) \ OrElse(StoredVotes(e), NoVotes).invalid

DisputedAfter(e) == ValidAfter(e) # {} /\ InvalidAfter(e) # {}
OwnVoteMissingAfter(e) ==
    \E v \in controlled_indices : v \notin ValidAfter(e) \cup InvalidAfter(e)
ConfirmedAfter(e) ==
    Cardinality(ValidAfter(e) \cup InvalidAfter(e)) > (NumValidators - 1) \div 3
IncludedNow(c) == \E x \in scraper.included : x[1] = c
BackedNow(c) == c \in scraper.backed
PotentialSpam(e) ==
    /\ DisputedAfter(e) /\ OwnVoteMissingAfter(e) /\ ~ConfirmedAfter(e)
    /\ ~IncludedNow(e.c) /\ ~BackedNow(e.c)

\* The ancient bound: highest_session_seen - (W - 1), saturating at 0.
AncientBound ==
    IF highest_session_seen >= DISPUTE_WINDOW - 1
    THEN highest_session_seen - (DISPUTE_WINDOW - 1) ELSE 0

Counted(spam, session, c) == {u \in spam.unconfirmed : u[1] = session /\ u[2] = c}
CountOf(spam, session, v) == Cardinality({u \in spam.unconfirmed : u[1] = session /\ u[3] = v})

\* add_unconfirmed would return true for v in the spam slots the import found.
SlotFree(e, v) ==
    \/ <<e.session, e.c, v>> \in e.pre.spam.unconfirmed
    \/ CountOf(e.pre.spam, e.session, v) < MAX_SPAM_VOTES

\* The import got as far as the vote-state engine.
ReachedEngine(e) ==
    /\ e.session >= AncientBound
    /\ e.info
    /\ e.receipt \/ StoredVotes(e) # None
    /\ e.res # "Fatal"

Confirmations(outcome) ==
    {i \in DOMAIN out : out[i].type = "Confirm" /\ out[i].outcome = outcome}

\* ------------------------------------------------------------------ claims

\* C1: when handling a message hit an error - here a backend error of an
\* import, which covers the imports of scraped on-chain votes inside a leaf
\* update - none of the overlay mutations of that message are written.
C1_ErrorDiscardsOverlay ==
    (\E e \in Imports : e.res = "Fatal") => ~written

\* C2: the confirmation of a ValidImport is sent only once the overlay of the
\* message was flushed or found empty, and never when the write failed; an
\* InvalidImport is confirmed while the message is handled, before the flush.
C2_ConfirmAfterFlush ==
    /\ Confirmations("ValidImport") # {} =>
          /\ pc = "recv"
          /\ input.type = "ImportStatements"
          /\ written \/ overlay_is_empty(overlay_db)
    /\ pc = "fatal" => Confirmations("ValidImport") = {}
    /\ (/\ pc = "flush"
        /\ input.type = "ImportStatements"
        /\ input.pending_confirmation
        /\ log[Len(log)].res = "InvalidImport") => Confirmations("InvalidImport") # {}

C2_Witness ==
    /\ Confirmations("ValidImport") # {}
    /\ written
    /\ ~overlay_is_empty(overlay_db)

\* C3: an import that returned InvalidImport wrote nothing to the overlay
\* (no recent disputes, no candidate votes), queued no participation and
\* sent no message, so no RevertBlocks and no SendDispute.
C3_InvalidImportNoEffect ==
    \A e \in Imports :
        e.res = "InvalidImport" =>
            /\ e.post.overlay = e.pre.overlay
            /\ e.post.queued = e.pre.queued
            /\ e.post.part = e.pre.part
            /\ e.post.out = e.pre.out

\* an import rejected for full spam slots, neither ancient nor unknown
C3_Witness ==
    /\ ~written
    /\ \E e \in Imports :
          /\ e.res = "InvalidImport"
          /\ ReachedEngine(e)
          /\ PotentialSpam(e)
          /\ NewInvalidVoters(e) # {}

\* C4: an import for a session below highest_session_seen - (W - 1)
\* (saturating) returns InvalidImport without loading votes and without
\* changing spam slots, participation or overlay; an import for a session at
\* or above the bound is rejected only for a missing receipt, missing session
\* info or full spam slots.
C4_AncientRejected ==
    \A e \in Imports :
        /\ e.session < AncientBound =>
              /\ e.res = "InvalidImport"
              /\ e.post = e.pre
        /\ (~written /\ e.session >= AncientBound /\ e.res = "InvalidImport") =>
              \/ ~e.info
              \/ ~e.receipt /\ StoredVotes(e) = None
              \/ /\ PotentialSpam(e)
                 /\ NewInvalidVoters(e) # {}
                 /\ \A v \in NewInvalidVoters(e) : ~SlotFree(e, v)

\* an ancient import for a candidate with stored votes, the backend readable
C4_Witness ==
    /\ ~written
    /\ \E e \in Imports :
          /\ e.session < AncientBound
          /\ e.session + 1 = AncientBound
          /\ StoredVotes(e) # None
          /\ e.pre.reads > 0

\* C5 as stated: without potential spam every spam-slot count of
\* (session, candidate) is cleared; with potential spam add_unconfirmed is
\* attempted for every new invalid voter, and the import is rejected with
\* nothing persisted when none of the attempts succeeds.
C5_SpamAsStated ==
    \A e \in Imports :
        (~written /\ ReachedEngine(e)) =>
            /\ ~PotentialSpam(e) => Counted(e.post.spam, e.session, e.c) = {}
            /\ PotentialSpam(e) =>
                  /\ \A v \in NewInvalidVoters(e) :
                        SlotFree(e, v) => <<e.session, e.c, v>> \in e.post.spam.unconfirmed
                  /\ (\A v \in NewInvalidVoters(e) : ~SlotFree(e, v)) =>
                        /\ e.res = "InvalidImport"
                        /\ e.post.overlay = e.pre.overlay

\* C5, amended: the import is rejected when there are new invalid voters and
\* none of their attempts succeeds; with potential spam and no new invalid
\* voter nothing is attempted and the import goes on.
C5_SpamAccounting ==
    \A e \in Imports :
        (~written /\ ReachedEngine(e)) =>
            /\ ~PotentialSpam(e) =>
                  /\ Counted(e.post.spam, e.session, e.c) = {}
                  /\ e.post.spam.unconfirmed =
                        e.pre.spam.unconfirmed \ Counted(e.pre.spam, e.session, e.c)
            /\ PotentialSpam(e) =>
                  /\ e.post.spam.unconfirmed =
                        e.pre.spam.unconfirmed
                            \cup {<<e.session, e.c, v>> : v \in {x \in NewInvalidVoters(e) :
                                                                    SlotFree(e, x)}}
                  /\ (/\ NewInvalidVoters(e) # {}
                      /\ \A v \in NewInvalidVoters(e) : ~SlotFree(e, v)) =>
                        /\ e.res = "InvalidImport"
                        /\ e.post.overlay = e.pre.overlay
                  /\ (\/ NewInvalidVoters(e) = {}
                      \/ \E v \in NewInvalidVoters(e) : SlotFree(e, v)) =>
                        e.res = "ValidImport"

\* potential spam whose new invalid voter has no slot left, and is rejected
C5_Witness ==
    /\ ~written
    /\ \E e \in Imports :
          /\ ReachedEngine(e)
          /\ PotentialSpam(e)
          /\ \E v \in NewInvalidVoters(e) : CountOf(e.pre.spam, e.session, v) = MAX_SPAM_VOTES
          /\ \A v \in NewInvalidVoters(e) : ~SlotFree(e, v)
          /\ e.res = "InvalidImport"

\* C6: in every reachable state the unconfirmed disputes counted for a
\* (session, validator) are at most the slot limit.
C6_SpamSlotBound ==
    /\ \A k \in DOMAIN spam_slots.slots : spam_slots.slots[k] <= MAX_SPAM_VOTES
    /\ \A s \in Sessions, v \in Validators : CountOf(spam_slots, s, v) <= MAX_SPAM_VOTES

\* a validator at the limit whose next dispute was turned away
C6_Witness ==
    /\ ~written
    /\ \E e \in Imports :
          /\ e.res = "InvalidImport"
          /\ PotentialSpam(e)
          /\ \E v \in NewInvalidVoters(e) :
                /\ <<e.session, v>> \in DOMAIN spam_slots.slots
                /\ spam_slots.slots[<<e.session, v>>] = MAX_SPAM_VOTES
                /\ <<e.session, e.c, v>> \notin spam_slots.unconfirmed

\* What C7 expects of an import.
WantsParticipation(e) == OwnVoteMissingAfter(e) /\ DisputedAfter(e) /\ ~PotentialSpam(e)

Reverts(msgs) == SelectSeq(msgs, LAMBDA x : x.type = "RevertBlocks")
FreshlyConcludedAgainst(e) ==
    /\ DisputedAfter(e)
    /\ Cardinality(InvalidAfter(e)) >= NumValidators - (NumValidators - 1) \div 3
    /\ ~(/\ OrElse(StoredVotes(e), NoVotes).valid # {}
         /\ Cardinality(OrElse(StoredVotes(e), NoVotes).invalid)
               >= NumValidators - (NumValidators - 1) \div 3)
IncludingBlocks(c) == {x[2] : x \in {y \in scraper.included : y[1] = c}}

\* C8: an import sends RevertBlocks exactly when it freshly concludes the
\* dispute against the candidate and the scraper knows an including block,
\* then one message with all including blocks; and no RevertBlocks for the
\* same (session, candidate) and blocks is ever sent again.
C8_RevertBlocks ==
    /\ ~reverted.twice
    /\ \A e \in Imports :
          (~written /\ e.res = "ValidImport") =>
              Reverts(e.post.out) =
                  IF FreshlyConcludedAgainst(e) /\ IncludingBlocks(e.c) # {}
                  THEN Append(Reverts(e.pre.out),
                              [type |-> "RevertBlocks", key |-> <<e.session, e.c>>,
                               blocks |-> IncludingBlocks(e.c)])
                  ELSE Reverts(e.pre.out)
    /\ \A e \in Imports : e.res # "ValidImport" => Reverts(e.post.out) = Reverts(e.pre.out)

\* a dispute concluded against a candidate two blocks include
C8_Witness ==
    /\ ~written
    /\ \E e \in Imports :
          /\ e.res = "ValidImport"
          /\ FreshlyConcludedAgainst(e)
          /\ Cardinality(IncludingBlocks(e.c)) = 2
          /\ Len(Reverts(e.post.out)) = 1

\* C9: every key of the persisted recent disputes has persisted candidate
\* votes, and so has every key of the recent disputes an overlay buffers
\* once that overlay is written.
C9_RecentDisputesHaveVotes ==
    /\ db.recent_disputes # None =>
          \A k \in DOMAIN unwrap(db.recent_disputes) : k \in DOMAIN db.candidate_votes
    /\ (pc = "flush" /\ overlay_db.recent_disputes # None) =>
          \A k \in DOMAIN unwrap(overlay_db.recent_disputes) :
              k \in (DOMAIN overlay_db.candidate_votes) \cup (DOMAIN db.candidate_votes)

\* a first recent-disputes entry, flushed together with its votes
C9_Witness ==
    /\ written
    /\ db.recent_disputes # None
    /\ \E k \in DOMAIN unwrap(db.recent_disputes) :
          /\ k \in DOMAIN overlay_db.candidate_votes
          /\ overlay_db.recent_disputes # None
          /\ k \in DOMAIN unwrap(overlay_db.recent_disputes)

StatusRank(status) ==
    CASE status.tag = "Active" -> 0
      [] status.tag = "Confirmed" -> 1
      [] OTHER -> 2

\* C10: the status stored for a (session, candidate) only moves forward:
\* Active, then Confirmed, then concluded; a concluded status stays
\* concluded, and one concluded against is not turned into concluded for.
C10_StatusForward ==
    [][(db.recent_disputes # None /\ db'.recent_disputes # None) =>
          \A k \in (DOMAIN unwrap(db.recent_disputes)) \cap (DOMAIN unwrap(db'.recent_disputes)) :
              /\ StatusRank(unwrap(db'.recent_disputes)[k]) >= StatusRank(unwrap(db.recent_disputes)[k])
              /\ unwrap(db.recent_disputes)[k].tag = "ConcludedAgainst" =>
                    unwrap(db'.recent_disputes)[k].tag = "ConcludedAgainst"]_vars

StatementVoters(e, valid) ==
    {e.statements[i].v : i \in {j \in DOMAIN e.statements : e.statements[j].valid = valid}}

\* a status concluded for before the import of the current input, which
\* brought the votes against, is stored as concluded against
C10_Witness ==
    /\ written
    /\ db.recent_disputes # None
    /\ \E e \in Imports :
          /\ <<e.session, e.c>> \in DOMAIN unwrap(db.recent_disputes)
          /\ unwrap(db.recent_disputes)[<<e.session, e.c>>].tag = "ConcludedAgainst"
          /\ <<e.session, e.c>> \in DOMAIN e.post.overlay.candidate_votes
          /\ Cardinality(e.post.overlay.candidate_votes[<<e.session, e.c>>].valid
                            \ StatementVoters(e, TRUE))
                >= NumValidators - (NumValidators - 1) \div 3
          /\ e.post.overlay.candidate_votes[<<e.session, e.c>>].invalid
                \ StatementVoters(e, FALSE) # {}

\* The replies to DetermineUndisputedChain among the messages sent.
ChainReplies == {out[i] : i \in {j \in DOMAIN out : out[j].type = "UndisputedChain"}}

\* The candidate has a stored status other than ConcludedFor.
StoredPossiblyInvalid(session, c) ==
    /\ db.recent_disputes # None
    /\ <<session, c>> \in DOMAIN unwrap(db.recent_disputes)
    /\ unwrap(db.recent_disputes)[<<session, c>>].tag
          \in {"Active", "Confirmed", "ConcludedAgainst"}
CleanDescription(d) == \A c \in d.candidates : ~StoredPossiblyInvalid(d.session, c)
\* The number of leading descriptions without a possibly invalid candidate.
LeadingClean(ds) ==
    CHOOSE k \in 0 .. Len(ds) :
        /\ \A i \in 1 .. k : CleanDescription(ds[i])
        /\ k < Len(ds) => ~CleanDescription(ds[k + 1])

\* C11: determine_undisputed_chain returns (base_number + k, hash of the
\* k-th description) for k the number of leading descriptions without a
\* possibly invalid candidate, and the base for k = 0; with no recent
\* disputes that is the last block, and ConcludedFor never shortens it.
C11_UndisputedChain ==
    \A q \in ChainReplies :
        q.base_number + Len(q.block_descriptions) < BlockNumberLimit =>
            /\ q.res = "Ok"
            /\ q.val = Some(<<q.base_number + LeadingClean(q.block_descriptions),
                              IF LeadingClean(q.block_descriptions) = 0 THEN q.base_hash
                              ELSE q.block_descriptions[
                                       LeadingClean(q.block_descriptions)].block_hash>>)

\* a chain cut in the middle, behind a block whose candidate is ConcludedFor
C11_Witness ==
    \E q \in ChainReplies :
        /\ q.res = "Ok"
        /\ LeadingClean(q.block_descriptions) > 0
        /\ LeadingClean(q.block_descriptions) < Len(q.block_descriptions)
        /\ \E c \in q.block_descriptions[1].candidates :
              /\ db.recent_disputes # None
              /\ <<q.block_descriptions[1].session, c>> \in DOMAIN unwrap(db.recent_disputes)
        /\ unwrap(q.val)[2] = q.block_descriptions[
                                  LeadingClean(q.block_descriptions)].block_hash

\* C12: the block number returned lies in [base_number, base_number +
\* len(descriptions)], also near the top of the block-number range.
C12_NumberInRange ==
    \A q \in ChainReplies :
        /\ q.res = "Ok"
        /\ q.val # None
        /\ unwrap(q.val)[1] >= q.base_number
        /\ unwrap(q.val)[1] <= q.base_number + Len(q.block_descriptions)

\* The four queries.
QueryTypes == {"RecentDisputes", "ActiveDisputes", "QueryCandidateVotes",
               "DetermineUndisputedChain"}

\* The stored recent disputes, and the stored entries a votes query asks for,
\* in the order of the query.
StoredDisputes == OrElse(db.recent_disputes, EmptyMap)
StoredFor(query) ==
    SelectSeq(query, LAMBDA k : k \in DOMAIN db.candidate_votes)
ExpectedVotes(query) ==
    [i \in 1 .. Len(StoredFor(query)) |->
        <<StoredFor(query)[i][1], StoredFor(query)[i][2],
          db.candidate_votes[StoredFor(query)[i]]>>]

\* The reply to the query just handled, given the backend it was read from.
QueryAnswered ==
    /\ Len(out) = 1
    /\ out[1].type = IF input.type = "DetermineUndisputedChain" THEN "UndisputedChain"
                     ELSE input.type
    /\ input.type = "RecentDisputes" =>
          /\ {out[1].reply[i] : i \in DOMAIN out[1].reply}
                = {<<k[1], k[2], StoredDisputes[k]>> : k \in DOMAIN StoredDisputes}
          /\ (StoredDisputes = EmptyMap => out[1].reply = <<>>)
    /\ input.type = "ActiveDisputes" =>
          /\ {out[1].reply[i] : i \in DOMAIN out[1].reply}
                \subseteq {<<k[1], k[2], StoredDisputes[k]>> : k \in DOMAIN StoredDisputes}
          /\ (StoredDisputes = EmptyMap => out[1].reply = <<>>)
    /\ input.type = "QueryCandidateVotes" => out[1].reply = ExpectedVotes(out[1].request)

\* C13: handling RecentDisputes, ActiveDisputes, QueryCandidateVotes or
\* DetermineUndisputedChain leaves the overlay empty, so that nothing is
\* written to the backend, and changes neither the spam slots, the
\* participation queue, the session bookkeeping nor the backlog; with a
\* backend that serves the reads the query is answered and is no error, the
\* answer being the empty list when nothing is stored, and a votes query
\* having an entry exactly for the keys with stored votes.
C13_QueriesReadOnly ==
    [][input'.type \in QueryTypes =>
          /\ overlay_is_empty(overlay_db')
          /\ ~written'
          /\ confirm_write' = None
          /\ UNCHANGED <<db, spam_slots, participation, highest_session_seen, gaps_in_cache,
                         chain_import_backlog>>
          /\ (steps' # steps /\ input'.reads = Unlimited) => (err' = "Ok" /\ QueryAnswered')
          /\ (steps' # steps /\ err' = "Ok") => QueryAnswered'
          /\ (steps' # steps /\ err' # "Ok") => (pc' = "fatal" /\ out' = <<>>)]_vars

\* A votes query for two candidates was answered with the votes of the one
\* that has votes stored, while spam slots are in use.
C13_Witness ==
    /\ input.type = "QueryCandidateVotes"
    /\ pc = "recv"
    /\ err = "Ok"
    /\ Len(out) = 1
    /\ Len(out[1].request) = 2
    /\ Len(out[1].reply) = 1
    /\ spam_slots # NoSpam

\* C14: on Conclude run returns Ok(()) at once: the step that receives it
\* ends the run with nothing buffered and nothing written and changes nothing
\* of the state, no step follows it, and run returns Ok only when the input
\* was Conclude.
C14_ConcludeEndsRun ==
    [][/\ pc # "done"
       /\ (input'.type = "Conclude" /\ steps' # steps) => pc' = "done"
       /\ pc' = "done" =>
             /\ pc = "recv"
             /\ input'.type = "Conclude"
             /\ err' = "Ok"
             /\ overlay_is_empty(overlay_db')
             /\ ~written'
             /\ confirm_write' = None
             /\ out' = <<>>
             /\ UNCHANGED <<db, spam_slots, participation, highest_session_seen,
                            gaps_in_cache, scraper, chain_import_backlog>>]_vars

\* Conclude arrived after votes had been stored.
C14_Witness ==
    /\ pc = "done"
    /\ input.type = "Conclude"
    /\ db.candidate_votes # EmptyMap

\* The step handles a leaf update that activates a leaf of session s, the
\* session cache being free of gaps.
LeafOfSession(s) ==
    /\ steps' # steps
    /\ input'.type = "ActiveLeaves"
    /\ input'.activated
    /\ input'.scraper_ok
    /\ input'.session_idx = Some(s)
    /\ ~gaps_in_cache

\* C15: a newly activated leaf of a session s above highest_session_seen,
\* without gaps, fetches the session info of exactly
\* highest_session_seen + 1 ..= s, sets highest_session_seen to s and, the
\* backend serving the read, writes s - (DISPUTE_WINDOW - 1) as the earliest
\* session to the overlay and prunes the spam slots of earlier sessions; a
\* leaf of a session at or below highest_session_seen, without gaps, fetches
\* nothing and writes no earliest session.
C15_SessionWindow ==
    [][\A s \in LeafSessions :
         LeafOfSession(s) =>
            IF s > highest_session_seen
            THEN /\ fetched' = [i \in 1 .. (s - highest_session_seen) |->
                                   highest_session_seen + i]
                 /\ highest_session_seen' = s
                 /\ err' # "Fatal" =>
                       /\ overlay_db'.earliest_session = Some(s - (DISPUTE_WINDOW - 1))
                       /\ \A k \in DOMAIN spam_slots'.slots : k[1] >= s - (DISPUTE_WINDOW - 1)
                       /\ \A u \in spam_slots'.unconfirmed : u[1] >= s - (DISPUTE_WINDOW - 1)
                       /\ log' = <<>> =>
                             spam_slots' = prune_old(spam_slots, s - (DISPUTE_WINDOW - 1))
            ELSE /\ fetched' = <<>>
                 /\ highest_session_seen' = highest_session_seen
                 /\ ~gaps_in_cache'
                 /\ err' = "Ok"
                 /\ overlay_db'.earliest_session = None
                 /\ log' = <<>> => (overlay_is_empty(overlay_db') /\ spam_slots' = spam_slots)]_vars

\* The leaf moved the window on by two sessions, which left the stored
\* disputes of a session before the window to be pruned: both sessions were
\* fetched and the overlay holds the new earliest session.
C15_Witness ==
    /\ input.type = "ActiveLeaves"
    /\ fetched = <<MaxSession, MaxSession + 1>>
    /\ highest_session_seen = MaxSession + 1
    /\ overlay_db.earliest_session = Some(MaxSession + 1 - (DISPUTE_WINDOW - 1))
    /\ db.recent_disputes # None
    /\ overlay_db.recent_disputes = Some(EmptyMap)

\* The step handles the initial data or a leaf update.
BacklogStep == pc \in {"start", "recv"} /\ pc' = "flush"
AllVotes == chain_import_backlog \o input'.on_chain_votes

\* C16: every leaf update that activates a leaf, and the initial bootstrap,
\* processes at most CHAIN_IMPORT_MAX_BATCH_SIZE backlog entries, taken from
\* the front of the backlog with the newly scraped votes appended at its
\* back; the entries not processed stay in the backlog in their order, none
\* lost and none duplicated.  A leaf update that activates no leaf leaves
\* the backlog alone.
C16_BacklogBatch ==
    [][BacklogStep =>
          IF input'.activated
          THEN /\ Len(processed') = Min(CHAIN_IMPORT_MAX_BATCH_SIZE, Len(AllVotes))
               /\ processed' = SubSeq(AllVotes, 1, Len(processed'))
               /\ chain_import_backlog' = SubSeq(AllVotes, Len(processed') + 1, Len(AllVotes))
               /\ Cardinality(IdsOf(processed' \o chain_import_backlog')) = Len(AllVotes)
          ELSE processed' = <<>> /\ chain_import_backlog' = chain_import_backlog]_vars

\* A leaf update found one vote set in the backlog and brought nine: the
\* old one and seven new ones were processed, two are left.
C16_Witness ==
    /\ input.type = "ActiveLeaves"
    /\ Len(processed) = CHAIN_IMPORT_MAX_BATCH_SIZE
    /\ Len(chain_import_backlog) = 2
    /\ Len(input.on_chain_votes) = 9
    /\ processed[1].id \notin IdsOf(input.on_chain_votes)
    /\ processed[2] = input.on_chain_votes[1]

\* C17: every vote set that enters the backlog is processed in the end, as
\* long as leaf updates that activate a leaf keep being handled: the one
\* that entered at (0-based) position p within p \div 8 + 1 of them.
C17_BacklogDrained ==
    /\ [](\A i \in DOMAIN processed :
            waited[processed[i].id].n
               <= waited[processed[i].id].p \div CHAIN_IMPORT_MAX_BATCH_SIZE + 1)
    /\ [](\A i \in DOMAIN chain_import_backlog :
            waited[chain_import_backlog[i].id].n
               <= waited[chain_import_backlog[i].id].p \div CHAIN_IMPORT_MAX_BATCH_SIZE)
    /\ \A id \in 0 .. (IdLimit - 1) :
          (id \in IdsOf(chain_import_backlog)) ~> (id \in IdsOf(processed))

\* A vote set that entered at a position past two batches was processed by
\* the third activated leaf.
C17_Witness ==
    \E i \in DOMAIN processed :
        /\ waited[processed[i].id].p >= 2 * CHAIN_IMPORT_MAX_BATCH_SIZE
        /\ waited[processed[i].id].n = 3

\* C18: one input is handled to completion before the next is received:
\* an input is received only at the top of the loop, and between receiving
\* it and being back there only its own flush and confirmation happen; what
\* the input before buffered is in the backend by then (or was dropped with
\* a logged error), the handler starts from an empty overlay, and it reads
\* what the inputs before wrote.
C18_OneInputAtATime ==
    [][/\ pc \in {"flush", "confirm"} => UNCHANGED <<steps, input, overlay_db>>
       /\ steps' # steps =>
             /\ pc = "recv"
             /\ \/ overlay_is_empty(overlay_db)
                \/ err = "Jfyi" /\ ~written
                \/ written /\ db = backend_write(db, overlay_db)
             /\ ~written'
             /\ (input'.type = "ImportStatements" /\ log' # <<>>) =>
                   /\ log'[1].pre.overlay = EmptyOverlay
                   /\ \A k \in DOMAIN overlay_db'.candidate_votes \cap DOMAIN db.candidate_votes :
                         /\ db.candidate_votes[k].valid \subseteq overlay_db'.candidate_votes[k].valid
                         /\ db.candidate_votes[k].invalid
                               \subseteq overlay_db'.candidate_votes[k].invalid]_vars

\* The second import added to the votes the first one had written: the
\* votes it buffers hold a voter that is not among its own statements.
C18_Witness ==
    /\ input.type = "ImportStatements"
    /\ pc = "flush"
    /\ Len(log) = 1
    /\ \E k \in DOMAIN overlay_db.candidate_votes :
          /\ k = <<log[1].session, log[1].c>>
          /\ k \in DOMAIN db.candidate_votes
          /\ voted_indices(overlay_db.candidate_votes[k])
                \ {log[1].statements[i].v : i \in DOMAIN log[1].statements} # {}

\* The two errors of MuxedMessage::receive.
ReceiveErrors == {"SubsystemReceive", "ParticipationWorkerReceiverExhausted"}

\* C19: when the overseer channel yields an error, or the channel of the
\* participation workers is closed, while the loop waits for an input,
\* receive returns a fatal error and run ends with it: nothing is handled,
\* flushed or confirmed, and no step follows.
C19_ReceiveErrorEndsRun ==
    [][/\ pc # "fatal"
       /\ (steps' # steps /\ input'.type \in ReceiveErrors) =>
             /\ pc = "recv"
             /\ pc' = "fatal"
             /\ err' = "Fatal"
             /\ out' = <<>>
             /\ log' = <<>>
             /\ ~written'
             /\ UNCHANGED <<db, spam_slots, participation, highest_session_seen,
                            gaps_in_cache, scraper, chain_import_backlog>>]_vars

\* The worker channel closed after votes had been stored.
C19_Witness ==
    /\ pc = "fatal"
    /\ input.type = "ParticipationWorkerReceiverExhausted"
    /\ err = "Fatal"
    /\ db.candidate_votes # EmptyMap

\* C20: after a non-fatal error the loop goes on, and every fatal error
\* raised while an input is handled - a backend read that fails during an
\* import, the imports of scraped on-chain votes included, a write that
\* fails, a channel that closes - makes run return that error.
C20_FatalErrorsEndRun ==
    /\ err = "Jfyi" => pc \in {"recv", "flush", "confirm", "done"}
    /\ err = "Fatal" => pc = "fatal"
    /\ (\E e \in Imports : e.res = "Fatal") => (pc = "fatal" /\ err = "Fatal")

\* The step handles a participation result.
ParticipationStep == steps' # steps /\ input'.type = "Participation"

\* Whether a controlled validator has no vote among the stored votes of key.
OwnVoteMissingIn(store, key) ==
    controlled_indices \ voted_indices(IF key \in DOMAIN store.candidate_votes
                                        THEN store.candidate_votes[key] ELSE NoVotes) # {}

\* C21: a participation result makes the loop issue a local statement exactly
\* when its outcome carries a validity, and with that validity: whatever is
\* signed, sent or imported then is a statement of a controlled validator
\* with the validity of the outcome, and one is imported whenever the backend
\* and the session info are there and the own vote is missing.  For an
\* outcome without a validity nothing is signed, sent or buffered, and the
\* loop goes on.
C21_ParticipationResult ==
    [][ParticipationStep =>
          IF input'.outcome \in {"Valid", "Invalid"}
          THEN /\ \A i \in DOMAIN log' :
                     /\ log'[i].session = input'.session
                     /\ log'[i].c = input'.c
                     /\ \A j \in DOMAIN log'[i].statements :
                           /\ log'[i].statements[j].v \in controlled_indices
                           /\ log'[i].statements[j].valid = (input'.outcome = "Valid")
               /\ \A i \in DOMAIN out' :
                     out'[i].type = "SendDispute" =>
                        /\ out'[i].key = <<input'.session, input'.c>>
                        /\ out'[i].v \in controlled_indices
                        /\ out'[i].valid = (input'.outcome = "Valid")
               /\ (/\ input'.reads = Unlimited
                   /\ input'.session \notin input'.no_info
                   /\ OwnVoteMissingIn(db, <<input'.session, input'.c>>)) => Len(log') = 1
          ELSE /\ log' = <<>>
               /\ out' = <<>>
               /\ overlay_is_empty(overlay_db')
               /\ err' = "Ok"
               /\ pc' = "flush"
               /\ UNCHANGED <<db, spam_slots>>]_vars

\* The result Invalid made the own invalid vote be imported and buffered.
C21_Witness ==
    /\ input.type = "Participation"
    /\ input.outcome = "Invalid"
    /\ Len(log) = 1
    /\ log[1].res = "ValidImport"
    /\ <<input.session, input.c>> \in DOMAIN overlay_db.candidate_votes
    /\ controlled_indices
          \subseteq overlay_db.candidate_votes[<<input.session, input.c>>].invalid

\* The step handles an IssueLocalStatement.
IssueStep == steps' # steps /\ input'.type = "IssueLocalStatement"

\* The votes stored for key, none when there is no entry.
VotesIn(store, key) ==
    IF key \in DOMAIN store.candidate_votes THEN store.candidate_votes[key] ELSE NoVotes

\* The statements the step signed and imported, as (validator, validity).
SignedNow ==
    UNION {{<<log'[i].statements[j].v, log'[i].statements[j].valid>> :
               j \in DOMAIN log'[i].statements} : i \in DOMAIN log'}
\* The statements the step handed to dispute-distribution.
HandedNow == {<<out'[i].v, out'[i].valid>> :
                 i \in {j \in DOMAIN out' : /\ out'[j].type = "SendDispute"
                                            /\ out'[j].key = <<input'.session, input'.c>>}}

\* What the step signs, and that issuing again does nothing.
IssueSigns ==
    /\ \A st \in SignedNow :
          /\ st[1] \in controlled_indices
                         \ voted_indices(VotesIn(db, <<input'.session, input'.c>>))
          /\ st[2] = input'.valid
    /\ HandedNow \subseteq SignedNow
    /\ ~OwnVoteMissingIn(db, <<input'.session, input'.c>>) =>
          /\ log' = <<>>
          /\ out' = <<>>
          /\ overlay_is_empty(overlay_db')
          /\ input'.reads = Unlimited => err' = "Ok"

\* C22 as stated: IssueLocalStatement signs only for controlled validators
\* without a stored vote, hands each signed statement to
\* dispute-distribution and imports them; issuing again once the own vote is
\* stored signs, sends and buffers nothing.
C22_IssueAsStated ==
    [][IssueStep => (IssueSigns /\ SignedNow \subseteq HandedNow)]_vars

\* C22, amended: a signed statement is handed to dispute-distribution exactly
\* when a dispute message can be made of it, which takes a stored vote of
\* the other side; the rest is as stated.
C22_IssueLocalStatement ==
    [][IssueStep =>
          /\ IssueSigns
          /\ HandedNow = IF can_make_dispute_message(
                                VotesIn(db, <<input'.session, input'.c>>), input'.valid)
                         THEN SignedNow ELSE {}]_vars

\* The own vote was stored, and a second IssueLocalStatement, asking for the
\* other validity, did nothing.
C22_Witness ==
    /\ input.type = "IssueLocalStatement"
    /\ pc = "flush"
    /\ controlled_indices
          \subseteq (IF input.valid THEN VotesIn(db, <<input.session, input.c>>).invalid
                     ELSE VotesIn(db, <<input.session, input.c>>).valid)
    /\ log = <<>>
    /\ out = <<>>
    /\ overlay_is_empty(overlay_db)

\* The step imports, under the same conditions, the statements the input
\* before it imported for the same session and candidate.
RepeatedImport ==
    /\ steps' # steps
    /\ input.type = "ImportStatements"
    /\ input'.type = "ImportStatements"
    /\ Len(log) = 1
    /\ Len(log') = 1
    /\ log'[1].session = log[1].session
    /\ log'[1].c = log[1].c
    /\ log'[1].statements = log[1].statements
    /\ log'[1].info = log[1].info
    /\ log'[1].pre.reads = log[1].pre.reads

\* What old_state.import_statements counts in the import e of the step, zero
\* when the import returns before it gets there.
ImportedNow(e) ==
    IF session_is_ancient(highest_session_seen, e.session) \/ ~e.info THEN <<0, 0>>
    ELSE <<import_statements(VotesIn(db, <<e.session, e.c>>), e.statements).imported_valid_votes,
           import_statements(VotesIn(db, <<e.session, e.c>>), e.statements).imported_invalid_votes>>

\* The second import returns what the first returned and buffers nothing.
RepeatedImportSame ==
    /\ log'[1].res = log[1].res
    /\ overlay_is_empty(log'[1].post.overlay)
    /\ overlay_is_empty(overlay_db')

\* C23 as stated: importing the same statements for the same (session,
\* candidate) a second time returns the result of the first import, writes
\* nothing to the overlay, and counts zero imported valid and invalid votes.
C23_RepeatedImportAsStated ==
    [][RepeatedImport => (RepeatedImportSame /\ ImportedNow(log'[1]) = <<0, 0>>)]_vars

\* C23, amended: the second import returns the result of the first and
\* writes nothing to the overlay; it counts zero imported valid and invalid
\* votes when the first import was a ValidImport.
C23_RepeatedImport ==
    [][RepeatedImport =>
          /\ RepeatedImportSame
          /\ log[1].res = "ValidImport" => ImportedNow(log'[1]) = <<0, 0>>]_vars

\* The dispute pair was imported a second time: its votes were stored, the
\* import counted none, returned ValidImport again and buffered nothing.
C23_Witness ==
    /\ pc = "flush"
    /\ input.type = "ImportStatements"
    /\ Len(log) = 1
    /\ log[1].statements = PlainBatch
    /\ log[1].res = "ValidImport"
    /\ VotesIn(db, <<log[1].session, log[1].c>>).valid = {1}
    /\ VotesIn(db, <<log[1].session, log[1].c>>).invalid = {2}
    /\ ImportedNow(log[1]) = <<0, 0>>
    /\ overlay_is_empty(overlay_db)

\* What the loop leaves of an import it handled and flushed (lines 272-278),
\* the backend taking the write.
import_flushed(r) ==
    [r.m EXCEPT !.db = backend_write(@, r.m.overlay), !.overlay = EmptyOverlay,
                !.out = <<>>, !.queued = <<>>, !.log = <<>>]

\* Importing first at now and second at now + 1, both for (session, c) and
\* with a receipt, each flushed: the candidate votes persisted at the end,
\* and whether both imports were accepted.
order_second(r1, r2) ==
    [votes |-> import_flushed(r2).db.candidate_votes,
     valid |-> r1.res = "ValidImport" /\ r2.res = "ValidImport"]
order_first(r1, session, c, second, now) ==
    order_second(r1, handle_import_statements(import_flushed(r1), TRUE, session, c,
                                              second, now + 1))
import_order(m, session, c, first, second, now) ==
    order_first(handle_import_statements(m, TRUE, session, c, first, now),
                session, c, second, now)

same_votes(ab, ba) == ab.votes = ba.votes
same_votes_if_valid(ab, ba) == (ab.valid /\ ba.valid) => ab.votes = ba.votes

\* The loop waits for an input and can take two more.
BeforeTwoImports == pc = "recv" /\ steps + 2 <= MaxMsgs

\* C24 as stated: wherever the loop waits for its next input, importing
\* statements A and then statements B for the same (session, candidate)
\* leaves the same persisted candidate votes as importing B and then A.
C24_OrderAsStated ==
    BeforeTwoImports =>
        \A session \in ImportSessions, c \in Candidates, A \in StatementBatches,
           B \in StatementBatches :
            same_votes(import_order(M0(NoFault), session, c, A, B, steps),
                       import_order(M0(NoFault), session, c, B, A, steps))

\* C24, amended: the two orders leave the same persisted candidate votes
\* when no import of either order is rejected.
C24_ImportOrder ==
    BeforeTwoImports =>
        \A session \in ImportSessions, c \in Candidates, A \in StatementBatches,
           B \in StatementBatches :
            same_votes_if_valid(import_order(M0(NoFault), session, c, A, B, steps),
                                import_order(M0(NoFault), session, c, B, A, steps))

\* After one input, the dispute pair and a third vote for the same candidate
\* are accepted in both orders and leave the votes of all three.
C24_Witness ==
    /\ BeforeTwoImports
    /\ steps = 1
    /\ \E session \in ImportSessions, c \in Candidates :
          /\ <<session, c>> \notin DOMAIN db.candidate_votes
          /\ import_order(M0(NoFault), session, c, PlainBatch, <<Stmt(3, TRUE)>>, steps).valid
          /\ import_order(M0(NoFault), session, c, <<Stmt(3, TRUE)>>, PlainBatch, steps).valid
          /\ import_order(M0(NoFault), session, c, <<Stmt(3, TRUE)>>, PlainBatch,
                          steps).votes[<<session, c>>]
                 = [valid |-> {1, 3}, invalid |-> {2}, approval |-> {}]

\* The votes of key as the loop holds them: buffered in the overlay, else
\* stored in the backend.
VotesHeld(key) ==
    IF key \in DOMAIN overlay_db.candidate_votes THEN overlay_db.candidate_votes[key]
    ELSE VotesIn(db, key)

\* No spam slot is counted for a confirmed candidate.
NoSpamForConfirmed ==
    \A u \in spam_slots.unconfirmed : ~vs_is_confirmed(VotesHeld(<<u[1], u[2]>>))

\* C25: in every reachable state no spam slot is counted for a candidate
\* that is confirmed or that the scraper reports as backed or included.
C25_NoSpamForKnown ==
    /\ NoSpamForConfirmed
    /\ \A u \in spam_slots.unconfirmed :
          /\ ~is_candidate_included(scraper, u[2])
          /\ ~is_candidate_backed(scraper, u[2])

\* The step imports statements with nothing failing.
ImportStep ==
    /\ steps' # steps
    /\ input'.type = "ImportStatements"
    /\ Len(log') = 1
    /\ log'[1].info
    /\ log'[1].pre.reads = Unlimited

\* The step imports one valid and one invalid statement of two other
\* validators for a candidate the scraper reports neither included nor
\* backed, in a session of the window, the own vote missing and no request
\* waiting with priority.
PairImport ==
    /\ ImportStep
    /\ log'[1].statements = PlainBatch
    /\ ~session_is_ancient(highest_session_seen, log'[1].session)
    /\ ~is_candidate_included(scraper, log'[1].c)
    /\ ~is_candidate_backed(scraper, log'[1].c)
    /\ OwnVoteMissingIn(db, <<log'[1].session, log'[1].c>>)
    /\ participation.priority = {}

BestEffortRequest(e) == [priority |-> FALSE, key |-> <<e.session, e.c>>]

\* C26 as stated: such an import enqueues a best-effort participation
\* request for the candidate and leaves the priority queue empty.
C26_PairQueuesBestEffort ==
    [][PairImport =>
          /\ queued' = <<BestEffortRequest(log'[1])>>
          /\ <<log'[1].session, log'[1].c>> \in participation'.best_effort
          /\ participation'.priority = {}]_vars

\* C26, amended: the request is enqueued, best-effort, only when the votes
\* stored with the two new ones confirm the dispute; otherwise the dispute
\* is potential spam and nothing is enqueued.  The priority queue stays empty.
C26_PairImport ==
    [][PairImport =>
          /\ queued' =
                 IF vs_is_confirmed(
                        import_statements(VotesIn(db, <<log'[1].session, log'[1].c>>),
                                          log'[1].statements).votes)
                 THEN <<BestEffortRequest(log'[1])>> ELSE <<>>
          /\ queued' = <<>> => participation' = participation
          /\ participation'.priority = {}]_vars

\* The pair was imported for a candidate with a vote of a third validator
\* stored: the dispute is confirmed and participation queued best-effort.
C26_Witness ==
    /\ pc = "flush"
    /\ input.type = "ImportStatements"
    /\ Len(log) = 1
    /\ log[1].statements = PlainBatch
    /\ log[1].res = "ValidImport"
    /\ VotesIn(db, <<log[1].session, log[1].c>>).valid = {3}
    /\ ~is_candidate_included(scraper, log[1].c)
    /\ ~is_candidate_backed(scraper, log[1].c)
    /\ queued = <<BestEffortRequest(log[1])>>
    /\ participation.priority = {}
    /\ <<log[1].session, log[1].c>> \in participation.best_effort

\* The step handles the result of a participation whose session is ancient.
AncientResult ==
    /\ ParticipationStep
    /\ session_is_ancient(highest_session_seen, input'.session)

InitialTaken == input.type = "InitialData" /\ pc # "start"

\* The initial data is taken once, on the first call of run_until_error.
TakenOnce ==
    [][(pc' = "start" \/ (input'.type = "InitialData" /\ input.type # "InitialData"))
          => pc = "start"]_vars

\* What the first call does when nothing fails: the requests are queued, at
\* most CHAIN_IMPORT_MAX_BATCH_SIZE vote sets processed and the rest kept,
\* and the first leaf handed to participation before an input is received.
FirstRun ==
    (InitialTaken /\ input.queue_fails = 0) =>
        /\ \A i \in DOMAIN input.participations :
              input.participations[i].key \in participation.priority
                                                  \cup participation.best_effort
        /\ Len(processed) <= CHAIN_IMPORT_MAX_BATCH_SIZE
        /\ processed \o chain_import_backlog = input.votes
        /\ (pc = "recv" /\ err = "Ok") => out = <<[type |-> "ParticipationLeaf"]>>

\* C28: the initial data is consumed at most once; the first run queues the
\* recovered requests, processes at most 8 of the initial vote sets, keeps
\* the rest in the backlog and forwards the first leaf before the first
\* input is received; and whenever the loop is entered, the initial vote
\* sets have been processed or are in the backlog.
C28_InitialDataOnce ==
    /\ TakenOnce
    /\ []FirstRun
    /\ [](InitialTaken =>
             IdsOf(input.votes) \subseteq IdsOf(processed) \cup IdsOf(chain_import_backlog))

\* The part that holds: taken once, and the first run as described when no
\* request fails to be queued.
FirstRunAsDescribed == TakenOnce /\ []FirstRun

\* The recent disputes an import found: buffered in the overlay it started
\* with, else stored in the backend.
FoundDisputes(e) ==
    IF e.pre.overlay.recent_disputes # None THEN unwrap(e.pre.overlay.recent_disputes)
    ELSE OrElse(db.recent_disputes, EmptyMap)

\* The import result of e, and what e left buffered that it had not found.
ResultOf(e) == import_statements(OrElse(StoredVotes(e), NoVotes), e.statements)
RecentWritten(e) == e.post.overlay.recent_disputes # e.pre.overlay.recent_disputes
VotesWritten(e) == e.post.overlay.candidate_votes # e.pre.overlay.candidate_votes

\* C29: an import writes the recent disputes only if the new state has a
\* dispute status and the dispute state changed, and then puts exactly the
\* entry (session, candidate) with that status into the map it found; an
\* import that changes no dispute state leaves the recent disputes
\* untouched; candidate votes are written only when the vote set changed.
\* The input is handled at the time steps - 1.
C29_RecentDisputesWrite ==
    pc = "flush" =>
        \A e \in Imports :
            /\ RecentWritten(e) =>
                  /\ ReachedEngine(e)
                  /\ vs_dispute_status(ResultOf(e).votes, steps - 1) # None
                  /\ dispute_state_changed(ResultOf(e))
                  /\ e.post.overlay.recent_disputes
                         = Some(Put(FoundDisputes(e), <<e.session, e.c>>,
                                    unwrap(vs_dispute_status(ResultOf(e).votes, steps - 1))))
            /\ (ReachedEngine(e) /\ ~dispute_state_changed(ResultOf(e))) => ~RecentWritten(e)
            /\ VotesWritten(e) =>
                  /\ ReachedEngine(e)
                  /\ votes_changed(ResultOf(e))
                  /\ e.post.overlay.candidate_votes
                         = Put(e.pre.overlay.candidate_votes, <<e.session, e.c>>,
                               ResultOf(e).votes)

\* An import moved the entry of its candidate on while the entry of another
\* candidate stayed as it was.
C29_Witness ==
    /\ pc = "flush"
    /\ \E e \in Imports :
          /\ RecentWritten(e)
          /\ <<e.session, e.c>> \in DOMAIN FoundDisputes(e)
          /\ FoundDisputes(e)[<<e.session, e.c>>]
                 # unwrap(e.post.overlay.recent_disputes)[<<e.session, e.c>>]
          /\ \E k \in DOMAIN FoundDisputes(e) :
                /\ k # <<e.session, e.c>>
                /\ unwrap(e.post.overlay.recent_disputes)[k] = FoundDisputes(e)[k]

\* The import log[j] of the current input follows an accepted import, with
\* a receipt, of valid votes for the same candidate.
BackedBefore(j) ==
    \E i \in 1 .. (j - 1) :
        /\ log[i].receipt
        /\ log[i].session = log[j].session
        /\ log[i].c = log[j].c
        /\ log[i].res = "ValidImport"
        /\ ValidAfter(log[i]) # {}

\* C30: an import without a candidate receipt is a ValidImport only if votes
\* for (session, candidate) are stored or buffered in the overlay, and
\* without them it is an InvalidImport (unless the backend fails to be
\* read); of one scraped vote set the backing votes, imported with the
\* receipt, come before the dispute statements, and a dispute on a candidate
\* whose backing votes were accepted just before finds votes.
C30_ReceiptAssumed ==
    pc = "flush" =>
        /\ \A e \in Imports :
              ~e.receipt =>
                  /\ e.res = "ValidImport" => StoredVotes(e) # None
                  /\ StoredVotes(e) = None =>
                        \/ e.res = "InvalidImport"
                        \/ e.res = "Fatal" /\ e.pre.reads = 0
        /\ input.type = "ActiveLeaves" =>
              \A i, j \in DOMAIN log :
                  (i < j /\ ~log[i].receipt) => ~log[j].receipt
        /\ \A j \in DOMAIN log :
              (~log[j].receipt /\ BackedBefore(j)) =>
                  <<log[j].session, log[j].c>> \in DOMAIN log[j].pre.overlay.candidate_votes
                                                      \cup DOMAIN db.candidate_votes

\* A scraped vote set backed a candidate unknown until then and disputed it:
\* the dispute statement found the votes the backing import had buffered and
\* was imported.
C30_Witness ==
    /\ pc = "flush"
    /\ input.type = "ActiveLeaves"
    /\ Len(log) = 2
    /\ log[1].receipt
    /\ ~log[2].receipt
    /\ log[2].res = "ValidImport"
    /\ <<log[2].session, log[2].c>> \notin DOMAIN db.candidate_votes
    /\ <<log[2].session, log[2].c>> \in DOMAIN log[2].pre.overlay.candidate_votes

\* ------------------------------------------------------------------ C31

\* A leaf update is handled; the candidates it newly reports as included.
LeafStep == steps' # steps /\ input'.type = "ActiveLeaves"
NewlyIncluded == {i[1] : i \in scraper'.included \ scraper.included}

\* The imports of the leaf update, as logged in the step.
LeafImports == {log'[i] : i \in DOMAIN log'}

C32_HighestSessionSeen ==
    [][/\ highest_session_seen' >= highest_session_seen
       /\ (LeafStep /\ input'.activated /\ input'.session_idx # None /\ pc' # "fatal"
             /\ unwrap(input'.session_idx) > highest_session_seen) =>
              highest_session_seen' = unwrap(input'.session_idx)
    ]_vars

\* ------------------------------------------------------------------ C33

\* A leaf update that attempts to cache sessions (the arm of lines 304-340),
\* the window it would fetch as a whole, and whether one of the fetches of
\* the attempt failed.
CachingAttempt ==
    /\ LeafStep
    /\ input'.activated
    /\ input'.session_idx # None
    /\ (gaps_in_cache \/ unwrap(input'.session_idx) > highest_session_seen)
WholeWindow(s) ==
    [i \in 1 .. (s + 1 - saturating_sub(s, DISPUTE_WINDOW - 1)) |->
        saturating_sub(s, DISPUTE_WINDOW - 1) + i - 1]
FetchFailed == \E i \in DOMAIN fetched' : fetched'[i] \in input'.no_info

\* C33: gaps_in_cache is true exactly when a fetch failed in the last
\* caching attempt: an attempt leaves it true if one of its fetches failed
\* and false if all succeeded, no other step changes it; an attempt made
\* with gaps_in_cache set fetches the whole window, and a leaf of the session
\* already seen fetches nothing while gaps_in_cache is false.
C33_GapsInCache ==
    [][/\ CachingAttempt =>
             /\ gaps_in_cache' = FetchFailed
             /\ gaps_in_cache => fetched' = WholeWindow(unwrap(input'.session_idx))
       /\ ~CachingAttempt =>
             /\ gaps_in_cache' = gaps_in_cache
             /\ LeafStep => fetched' = <<>>
    ]_vars

\* ------------------------------------------------------------------ C34

\* The window as a leaf update leaves it alone: highest_session_seen is
\* unchanged, no earliest session is buffered, and the spam slots change
\* only by the imports of the update, if any.
WindowUnchanged ==
    /\ highest_session_seen' = highest_session_seen
    /\ overlay_db'.earliest_session = None
    /\ log' = <<>> => spam_slots' = spam_slots

\* The window as a leaf update advanced it to session s.
WindowAdvanced(s) ==
    /\ highest_session_seen' = s
    /\ overlay_db'.earliest_session = Some(saturating_sub(s, DISPUTE_WINDOW - 1))
    /\ log' = <<>> =>
          spam_slots' = prune_old(spam_slots, saturating_sub(s, DISPUTE_WINDOW - 1))

\* C34 as stated: a leaf update in which a session-info fetch failed sets
\* gaps_in_cache and leaves the window as it was, and so does one whose
\* session index cannot be fetched.
C34_AdvanceOnSuccessOnly ==
    [][LeafStep =>
          /\ FetchFailed => gaps_in_cache' /\ WindowUnchanged
          /\ input'.session_idx = None => WindowUnchanged
    ]_vars

\* C34, amended: a caching attempt advances the window to the session of the
\* leaf whether or not a session-info fetch failed (unless persisting the
\* earliest session ended the subsystem); a failed fetch only sets
\* gaps_in_cache.  A leaf update that makes no attempt, as one whose session
\* index cannot be fetched, leaves the window and gaps_in_cache as they were.
C34_WindowAdvance ==
    [][LeafStep =>
          /\ (CachingAttempt /\ pc' # "fatal") =>
                WindowAdvanced(unwrap(input'.session_idx))
          /\ FetchFailed => gaps_in_cache'
          /\ ~CachingAttempt => WindowUnchanged /\ gaps_in_cache' = gaps_in_cache
          /\ input'.session_idx = None => ~CachingAttempt
    ]_vars

\* A fetch failed in a leaf update of a new session, and the window was
\* advanced to that session all the same.
C34_Witness ==
    /\ pc = "flush"
    /\ input.type = "ActiveLeaves"
    /\ \E i \in DOMAIN fetched : fetched[i] \in input.no_info
    /\ gaps_in_cache
    /\ input.session_idx = Some(MaxSession)
    /\ highest_session_seen = MaxSession
    /\ overlay_db.earliest_session = Some(AncientBound)

\* ------------------------------------------------------------------ C35

\* The import got as far as the vote-state engine, whatever failed later.
EngineRan(e) ==
    /\ e.session >= AncientBound
    /\ e.info
    /\ e.receipt \/ StoredVotes(e) # None
    /\ e.pre.reads > 0 \/ <<e.session, e.c>> \in DOMAIN e.pre.overlay.candidate_votes

\* The import opens the dispute: the stored votes were undisputed, with the
\* statements they are disputed.
FreshlyOpened(e) ==
    /\ EngineRan(e)
    /\ ~vs_is_disputed(OrElse(StoredVotes(e), NoVotes))
    /\ DisputedAfter(e)

\* The approval-checking votes of controlled validators after the import.
OwnApprovalsAfter(e) ==
    controlled_indices \cap
        (OrElse(StoredVotes(e), NoVotes).approval
         \cup {e.statements[i].v : i \in {j \in DOMAIN e.statements :
                  /\ e.statements[j].valid
                  /\ e.statements[j].kind = "ApprovalChecking"
                  /\ e.statements[j].v \notin OrElse(StoredVotes(e), NoVotes).valid}})

\* The positions of the dispute messages the import sent.
SentDisputes(e) ==
    {i \in (Len(e.pre.out) + 1) .. Len(e.post.out) : e.post.out[i].type = "SendDispute"}

\* C35: an import that opens the dispute and is not rejected sends one
\* dispute message for each controlled validator that has an approval vote
\* among the votes, a valid one for the candidate, and no other; every other
\* import sends no dispute message; approval signatures are never requested.
C35_OwnApprovalsSent ==
    pc = "flush" =>
        /\ \A e \in Imports :
              IF FreshlyOpened(e) /\ e.res # "InvalidImport"
              THEN /\ \A i \in SentDisputes(e) :
                         /\ e.post.out[i].key = <<e.session, e.c>>
                         /\ e.post.out[i].valid
                   /\ \A v \in Validators :
                         Cardinality({i \in SentDisputes(e) : e.post.out[i].v = v})
                             = IF v \in OwnApprovalsAfter(e) THEN 1 ELSE 0
              ELSE SentDisputes(e) = {}
        /\ \A i \in DOMAIN out : out[i].type # "GetApprovalSignaturesForCandidate"

\* A dispute was opened on a candidate approved by a controlled validator:
\* the approval vote went out as a dispute message.
C35_Witness ==
    /\ pc = "flush"
    /\ \E e \in Imports :
          /\ FreshlyOpened(e)
          /\ OrElse(StoredVotes(e), NoVotes).approval \cap controlled_indices # {}
          /\ SentDisputes(e) # {}

\* ------------------------------------------------------------------ C36

\* The dispute statement sets of a scraped vote set that are handed to the
\* import: those whose session info can be fetched and that have a statement
\* of a known validator.
ImportableDisputes(p) ==
    SelectSeq(p.disputes, LAMBDA d : /\ d.session \notin input.no_info
                                      /\ known_validators(d.statements) # <<>>)

\* The imports of the current input that came without a receipt.
DisputeImports == SelectSeq(log, LAMBDA e : ~e.receipt)

\* The session info for the backing candidates of the set cannot be fetched.
BackingSkipped(p) == p.backing # <<>> /\ p.session \in input.no_info

\* C36: a scraped vote set whose session info cannot be fetched for a
\* backing candidate is left without an error and without any import, of
\* backing votes or of dispute statements, and it has left the backlog; in a
\* set that gets past its backing votes a dispute statement set whose session
\* info cannot be fetched is skipped alone: as long as no import fails, the
\* statement sets imported are those whose session info is there, in order.
C36_ScrapedSetSkipped ==
    (pc = "flush" /\ input.type = "ActiveLeaves" /\ Len(processed) = 1) =>
        /\ err = "Ok"
        /\ \A i \in DOMAIN chain_import_backlog : chain_import_backlog[i] # processed[1]
        /\ BackingSkipped(processed[1]) => log = <<>>
        /\ (~BackingSkipped(processed[1]) /\ \A e \in Imports : e.res # "Fatal") =>
              /\ Len(DisputeImports) = Len(ImportableDisputes(processed[1]))
              /\ \A i \in DOMAIN DisputeImports :
                    /\ DisputeImports[i].session = ImportableDisputes(processed[1])[i].session
                    /\ DisputeImports[i].c = ImportableDisputes(processed[1])[i].c

\* The first of two dispute statement sets had no session info: the second
\* was imported.
C36_Witness ==
    /\ pc = "flush"
    /\ input.type = "ActiveLeaves"
    /\ Len(processed) = 1
    /\ Len(processed[1].disputes) = 2
    /\ processed[1].disputes[1].session \in input.no_info
    /\ Len(DisputeImports) = 1
    /\ DisputeImports[1].session = processed[1].disputes[2].session

\* The session info for the backing candidates was missing: the dispute
\* statement sets of the block, of a session whose info is there, were
\* skipped with them.
BackingSkippedWithDisputes ==
    /\ pc = "flush"
    /\ input.type = "ActiveLeaves"
    /\ Len(processed) = 1
    /\ BackingSkipped(processed[1])
    /\ ImportableDisputes(processed[1]) # <<>>
    /\ log = <<>>

\* ------------------------------------------------------------------ C37

\* The import was rejected for want of a free spam slot, or accepted as
\* potential spam.
SpamRejected(e) ==
    /\ EngineRan(e)
    /\ PotentialSpam(e)
    /\ NewInvalidVoters(e) # {}
    /\ e.res = "InvalidImport"
SpamAccepted(e) ==
    /\ EngineRan(e)
    /\ PotentialSpam(e)
    /\ e.res = "ValidImport"

\* C37: an import rejected because none of its new invalid voters had a free
\* spam slot leaves the spam slots as it found them; an import accepted as
\* potential spam raises the count of (session, validator) by at most one
\* for a new invalid voter of its session and leaves every other count as
\* it was.
C37_SpamSlotsFrame ==
    pc = "flush" =>
        \A e \in Imports :
            /\ SpamRejected(e) =>
                  /\ e.post.spam = e.pre.spam
                  /\ \A v \in NewInvalidVoters(e) : ~SlotFree(e, v)
            /\ SpamAccepted(e) =>
                  \A s \in 0 .. MaxSession + 1, v \in Validators :
                      slot_count(e.post.spam, s, v) - slot_count(e.pre.spam, s, v)
                          \in IF s = e.session /\ v \in NewInvalidVoters(e)
                              THEN {0, 1} ELSE {0}

\* An import was rejected with the spam slot of its invalid voter full.
C37_Witness ==
    /\ pc = "flush"
    /\ \E e \in Imports :
          /\ SpamRejected(e)
          /\ \E v \in NewInvalidVoters(e) : slot_count(e.pre.spam, e.session, v) > 0

\* An import was accepted as potential spam, and a voter was counted.
SpamCounted ==
    /\ pc = "flush"
    /\ \E e \in Imports :
          /\ SpamAccepted(e)
          /\ \E v \in NewInvalidVoters(e) :
                slot_count(e.post.spam, e.session, v) = slot_count(e.pre.spam, e.session, v) + 1

\* ------------------------------------------------------------------ C38

\* The session window on its own, over the whole range of SessionIndex: the
\* subsystem is made with any highest_session_seen and gaps_in_cache (lines
\* 116-123), leaves of low sessions, of sessions around the window size and of
\* the highest sessions are activated, with or without a failing fetch, and
\* votes of the sessions 0 and 1 are imported.
WindowSessions ==
    {0, 1, DISPUTE_WINDOW - 2, DISPUTE_WINDOW - 1, DISPUTE_WINDOW,
     SessionIndexLimit - 2, SessionIndexLimit - 1}
WindowLeaves ==
    { Leaf(TRUE, i, [included |-> {}, backed |-> {}], <<NoOnChainVotes>>, TRUE, f) :
        i \in {None} \cup {Some(x) : x \in WindowSessions},
        f \in {NoFault} \cup {InfoFault({x}) : x \in WindowSessions} }
WindowImports ==
    { [session |-> s, c |-> 1, statements |-> PlainBatch, pending_confirmation |-> TRUE,
       fault |-> NoFault] : s \in ImportSessions }

InitWindow ==
    /\ pc = "recv"
    /\ steps = 0
    /\ highest_session_seen \in WindowSessions
    /\ gaps_in_cache \in BOOLEAN
    /\ spam_slots = NoSpam
    /\ participation = [priority |-> {}, best_effort |-> {}]
    /\ scraper = [included |-> {}, backed |-> {}]
    /\ chain_import_backlog = <<>>
    /\ db = EmptyDb
    /\ overlay_db = EmptyOverlay
    /\ confirm_write = None
    /\ written = FALSE
    /\ err = "Ok"
    /\ out = <<>>
    /\ queued = <<>>
    /\ log = <<>>
    /\ input = Input("None", FALSE)
    /\ processed = <<>>
    /\ waited = EmptyMap
    /\ fetched = <<>>
    /\ reverted = [sent |-> {}, twice |-> FALSE]
    /\ worker = NoWorker

WindowLeaf ==
    /\ Receiving
    /\ \E u \in WindowLeaves :
          AfterHandling(process_active_leaves_update(M0(u.fault), u, steps), LeafInput(u))

WindowImport ==
    /\ Receiving
    /\ \E i \in WindowImports :
          AfterHandling(handle_ImportStatements(M0(i.fault), i, steps),
                        Input("ImportStatements", i.pending_confirmation))

NextWindow ==
    \/ WindowLeaf
    \/ WindowImport
    \/ Flush
    \/ ConfirmWrite

SpecWindow == InitWindow /\ [][NextWindow]_vars

\* The sessions from a to b as the fetches of a caching attempt list them.
SessionRange(a, b) == [i \in 1 .. (b + 1 - a) |-> a + i - 1]

\* C38: the window arithmetic never wraps on SessionIndex.  The ancient
\* bound is highest_session_seen - (W - 1) or 0, never a wrapped value: a
\* session is ancient exactly when it lies more than W - 1 below
\* highest_session_seen, and none is while highest_session_seen < W - 1.  A
\* caching attempt persists the earliest session s - (W - 1) or 0 for the
\* session s of the leaf.  The lower bound highest_session_seen + 1 is only
\* computed with gaps_in_cache false, and then the session of the leaf is
\* above highest_session_seen, so that the sum does not overflow and the
\* sessions fetched are those from highest_session_seen + 1 to s.
C38_WindowArithmetic ==
    /\ [](/\ highest_session_seen \in 0 .. SessionIndexLimit - 1
          /\ \A s \in 0 .. SessionIndexLimit - 1 :
                /\ session_is_ancient(highest_session_seen, s)
                       <=> s + (DISPUTE_WINDOW - 1) < highest_session_seen
                /\ highest_session_seen < DISPUTE_WINDOW - 1 =>
                       ~session_is_ancient(highest_session_seen, s)
          /\ \A e \in Imports :
                (input.type = "ImportStatements" /\ highest_session_seen < DISPUTE_WINDOW - 1)
                    => e.post # e.pre)
    /\ [][CachingAttempt =>
             /\ pc' # "fatal" =>
                   overlay_db'.earliest_session =
                       Some(IF unwrap(input'.session_idx) >= DISPUTE_WINDOW - 1
                            THEN unwrap(input'.session_idx) - (DISPUTE_WINDOW - 1)
                            ELSE 0)
             /\ gaps_in_cache => fetched' = WholeWindow(unwrap(input'.session_idx))
             /\ ~gaps_in_cache =>
                   /\ highest_session_seen + 1 < SessionIndexLimit
                   /\ fetched' = SessionRange(highest_session_seen + 1,
                                              unwrap(input'.session_idx))
       ]_vars

\* A leaf of a session below W - 1 was activated, and so was a leaf of the
\* highest session: 0 was persisted as the earliest session for the former,
\* the latter was reached without an overflow.
C38_Witness ==
    /\ pc = "flush"
    /\ input.type = "ActiveLeaves"
    /\ highest_session_seen = SessionIndexLimit - 1
    /\ fetched # <<>>
    /\ fetched[Len(fetched)] = SessionIndexLimit - 1
    /\ fetched[1] < DISPUTE_WINDOW - 1
    /\ db.earliest_session = Some(0)
    /\ ~gaps_in_cache

\* ------------------------------------------------------- PVF execute worker

\* worker_entrypoint (execute.rs 81-187).  The requests the worker is sent.
MaxRequests == 2
Requests == 1 .. MaxRequests

\* WaitOutcome, and what validate_using_artifact returns (lines 189-224).
WaitOutcomes == {"Pending", "JobFinished", "CpuTimedOut"}
JobResponses == {"Ok", "Invalid", "InternalError"}

\* The worker before its first request (lines 82-88): per request the flag
\* of its condition variable, its two threads and whether the monitor was
\* told to stop; the outcome the wait returned; the responses sent.
\* A thread is "none" (not spawned), "running", "returned" (its closure
\* returned, the notification is still to come), "finished" or "panicked".
WorkerStarted ==
    [main |-> "recv",
     reqs |-> 0,
     cond |-> [r \in Requests |-> "Pending"],
     job |-> [r \in Requests |-> [st |-> "none", result |-> "none"]],
     monitor |-> [r \in Requests |-> [st |-> "none", elapsed |-> FALSE]],
     stop |-> [r \in Requests |-> FALSE],
     outcome |-> "Pending",
     responses |-> <<>>]

\* Line 100: each request gets a condition variable of its own, with the
\* flag Pending.
cond_main == "Pending"

\* cond_notify_on_done(f, cond, outcome), once f has returned: the flag is
\* set to outcome.  Whether a flag that is already set is overwritten is
\* not to be seen from execute.rs: overwrite says which.
cond_notify(flag, outcome, overwrite) ==
    IF flag = "Pending" \/ overwrite THEN outcome ELSE flag

\* Variant: the wait returns whatever the flag is.
cond_wait_once(flag) == TRUE

\* cond_wait_while(cond) returns once the flag is no longer Pending.
cond_wait_while(flag) == flag # "Pending"

\* Variant: the monitor thread having ended the wait, the response is
\* TimedOut whatever the thread returned.
response_timed_out(outcome, job_, monitor_) ==
    CASE outcome = "JobFinished" ->
             IF job_.st = "panicked" THEN "InternalError" ELSE job_.result
      [] outcome = "CpuTimedOut" -> "TimedOut"
      [] OTHER -> "InternalError"

\* Lines 141-182: the response for the outcome of the wait, the thread of
\* the outcome having been joined.
response(outcome, job_, monitor_) ==
    CASE outcome = "JobFinished" ->
             IF job_.st = "panicked" THEN "InternalError" ELSE job_.result
      [] outcome = "CpuTimedOut" ->
             IF monitor_.st = "finished" /\ monitor_.elapsed THEN "TimedOut"
             ELSE "InternalError"
      [] OTHER -> "InternalError"

\* The thread a response waits for has ended (lines 144 and 155: join).
joined(outcome, job_, monitor_) ==
    CASE outcome = "JobFinished" -> job_.st \in {"finished", "panicked"}
      [] outcome = "CpuTimedOut" -> monitor_.st \in {"finished", "panicked"}
      [] OTHER -> TRUE

\* Variant: a failed send is ignored and the next request is received.
after_send_ignored(ok) == "recv"

\* Line 184: send_response(..).await? ends the worker when the send fails.
after_send(ok) == IF ok THEN "recv" ELSE "ended"

\* The variables of the dispute coordinator, which the worker leaves alone.
coordinator_vars ==
    <<pc, steps, highest_session_seen, gaps_in_cache, spam_slots, participation,
      scraper, chain_import_backlog, db, overlay_db, confirm_write, written, err,
      out, queued, log, input, processed, waited, fetched, reverted>>

InitWorker ==
    /\ pc = "recv"
    /\ steps = 0
    /\ highest_session_seen = MaxSession - 1
    /\ gaps_in_cache = FALSE
    /\ spam_slots = NoSpam
    /\ participation = [priority |-> {}, best_effort |-> {}]
    /\ scraper = [included |-> {}, backed |-> {}]
    /\ chain_import_backlog = <<>>
    /\ db = EmptyDb
    /\ overlay_db = EmptyOverlay
    /\ confirm_write = None
    /\ written = FALSE
    /\ err = "Ok"
    /\ out = <<>>
    /\ queued = <<>>
    /\ log = <<>>
    /\ input = Input("None", FALSE)
    /\ processed = <<>>
    /\ waited = EmptyMap
    /\ fetched = <<>>
    /\ reverted = [sent |-> {}, twice |-> FALSE]
    /\ worker = WorkerStarted

\* Lines 90-120: a request is received, or the socket fails; the condition
\* variable is made and the CPU-time monitor thread spawned.
RecvRequest ==
    /\ worker.main = "recv"
    /\ worker.reqs < MaxRequests
    /\ \E ok \in BOOLEAN :
          worker' = IF ok
                    THEN [worker EXCEPT !.main = "spawn",
                                        !.reqs = @ + 1,
                                        !.cond[worker.reqs + 1] = cond_main,
                                        !.monitor[worker.reqs + 1].st = "running",
                                        !.outcome = "Pending"]
                    ELSE [worker EXCEPT !.main = "ended"]
    /\ UNCHANGED coordinator_vars

\* Lines 121-136: the execute thread is spawned, or cannot be, which ends
\* the worker.
SpawnExecuteThread ==
    /\ worker.main = "spawn"
    /\ \E ok \in BOOLEAN :
          worker' = IF ok
                    THEN [worker EXCEPT !.main = "wait", !.job[worker.reqs].st = "running"]
                    ELSE [worker EXCEPT !.main = "ended"]
    /\ UNCHANGED coordinator_vars

\* Lines 125-132: validate_using_artifact returns a response.
JobReturns ==
    /\ \E r \in Requests, result \in JobResponses :
          /\ worker.job[r].st = "running"
          /\ worker' = [worker EXCEPT !.job[r] = [st |-> "returned", result |-> result]]
    /\ UNCHANGED coordinator_vars

\* Lines 124-135: the execute thread notifies with JobFinished and ends.
JobNotifies ==
    /\ \E r \in Requests, overwrite \in BOOLEAN :
          /\ worker.job[r].st = "returned"
          /\ worker' = [worker EXCEPT
                           !.job[r].st = "finished",
                           !.cond[r] = cond_notify(@, "JobFinished", overwrite)]
    /\ UNCHANGED coordinator_vars

\* The execute thread panics; whether cond_notify_on_done still notifies is
\* not to be seen from execute.rs.
JobPanics ==
    /\ \E r \in Requests, notifies \in BOOLEAN, overwrite \in BOOLEAN :
          /\ worker.job[r].st = "running"
          /\ worker' = [worker EXCEPT
                           !.job[r].st = "panicked",
                           !.cond[r] = IF notifies
                                       THEN cond_notify(@, "JobFinished", overwrite)
                                       ELSE @]
    /\ UNCHANGED coordinator_vars

\* Lines 110-116: cpu_time_monitor_loop returns the CPU time elapsed, the
\* timeout being exceeded.
MonitorTimesOut ==
    /\ \E r \in Requests :
          /\ worker.monitor[r].st = "running"
          /\ worker' = [worker EXCEPT !.monitor[r] = [st |-> "returned", elapsed |-> TRUE]]
    /\ UNCHANGED coordinator_vars

\* cpu_time_monitor_loop returns nothing: it was told to stop (line 143), or
\* the sender is gone, the main thread being done with the request.
MonitorStops ==
    /\ \E r \in Requests :
          /\ worker.monitor[r].st = "running"
          /\ \/ worker.stop[r]
             \/ r < worker.reqs
             \/ worker.main \in {"recv", "ended"}
          /\ worker' = [worker EXCEPT !.monitor[r] = [st |-> "returned", elapsed |-> FALSE]]
    /\ UNCHANGED coordinator_vars

\* Lines 109-119: the monitor thread notifies with CpuTimedOut and ends.
MonitorNotifies ==
    /\ \E r \in Requests, overwrite \in BOOLEAN :
          /\ worker.monitor[r].st = "returned"
          /\ worker' = [worker EXCEPT
                           !.monitor[r].st = "finished",
                           !.cond[r] = cond_notify(@, "CpuTimedOut", overwrite)]
    /\ UNCHANGED coordinator_vars

\* The monitor thread panics.
MonitorPanics ==
    /\ \E r \in Requests, notifies \in BOOLEAN, overwrite \in BOOLEAN :
          /\ worker.monitor[r].st = "running"
          /\ worker' = [worker EXCEPT
                           !.monitor[r].st = "panicked",
                           !.cond[r] = IF notifies
                                       THEN cond_notify(@, "CpuTimedOut", overwrite)
                                       ELSE @]
    /\ UNCHANGED coordinator_vars

\* Lines 139-143: the wait for one of the threads returns the outcome; the
\* job having finished, the monitor is told to stop.
Wait ==
    /\ worker.main = "wait"
    /\ cond_wait_while(worker.cond[worker.reqs])
    /\ worker' = [worker EXCEPT
                     !.main = "respond",
                     !.outcome = worker.cond[worker.reqs],
                     !.stop[worker.reqs] = worker.cond[worker.reqs] = "JobFinished"]
    /\ UNCHANGED coordinator_vars

\* Lines 141-184: the thread of the outcome is joined and the response
\* sent, which may fail.
SendResponse ==
    /\ worker.main = "respond"
    /\ joined(worker.outcome, worker.job[worker.reqs], worker.monitor[worker.reqs])
    /\ \E ok \in BOOLEAN :
          worker' = [worker EXCEPT
                        !.main = after_send(ok),
                        !.responses =
                            IF ok
                            THEN Append(@, [req |-> worker.reqs,
                                            outcome |-> worker.outcome,
                                            job |-> worker.job[worker.reqs],
                                            monitor |-> worker.monitor[worker.reqs],
                                            stop |-> worker.stop[worker.reqs],
                                            response |->
                                                response(worker.outcome,
                                                         worker.job[worker.reqs],
                                                         worker.monitor[worker.reqs])])
                            ELSE @]
    /\ UNCHANGED coordinator_vars

NextWorker ==
    \/ RecvRequest
    \/ SpawnExecuteThread
    \/ JobReturns
    \/ JobNotifies
    \/ JobPanics
    \/ MonitorTimesOut
    \/ MonitorStops
    \/ MonitorNotifies
    \/ MonitorPanics
    \/ Wait
    \/ SendResponse

SpecWorker == InitWorker /\ [][NextWorker]_vars

\* ------------------------------------------------------------------ C39

Responses == {worker.responses[i] : i \in DOMAIN worker.responses}

====
